---- MODULE Spec2Model ----
(***************************************************************************)
(* Model of the financial-ratio diagnostic pages financial_analysis3.py    *)
(* (reactive page: every widget change re-runs the script and re-renders   *)
(* the report) and financial_analysis4.py (the report is gated by the      *)
(* session flag has_diagnosed).                                            *)
(*                                                                         *)
(* Numbers.  Python ints and floats are modelled as exact rationals in     *)
(* lowest terms.  A Python value is a triple <<tag, n, d>>:                *)
(*   <<"num", n, d>>   the number n/d, d > 0, gcd(n, d) = 1                *)
(*   <<"none", 0, 1>>  None                                                *)
(*   <<"err", 0, 1>>   the evaluation raised (ZeroDivisionError on x / 0,  *)
(*                     TypeError on arithmetic or comparison with None)    *)
(* Arithmetic is strict: an operand that is not a number makes the result  *)
(* "err", as the exception would propagate out of the expression.          *)
(* The free-cash-flow line, the one float expression whose operands        *)
(* cancel, is in addition evaluated in binary64 (section "The              *)
(* free-cash-flow line in binary64").                                      *)
(*                                                                         *)
(* Strings.  A rendered string is a sequence of characters, each a         *)
(* one-character string; the Japanese unit characters are written as the   *)
(* ASCII tokens CH_SEN, CH_EN, CH_KAI, CH_BAI, CH_NEN, CH_NICHI.           *)
(***************************************************************************)
EXTENDS Integers, Sequences, FiniteSets, TLC

VARIABLES
    fn, args, result,   \* a helper function applied directly to drawn arguments
    page,               \* which page the session runs: "fa3" or "fa4"
    company_name,       \* the company-name text input
    industry,           \* the industry selectbox (fa3) / radio (fa4)
    prefecture,         \* the prefecture selectbox (fa4)
    input_data,         \* the number inputs: [curr |-> line items, prev |-> line items]
    has_diagnosed,      \* st.session_state["has_diagnosed"] (fa4)
    alert,              \* the validation error shown by the last run (fa4)
    balance,            \* the balance message of each period shown by the last run
    report,             \* the report section rendered by the last run
    sheet,              \* the rows appended to the spreadsheet
    last_save,          \* how save_to_gsheet ended in the last run, "none" if not called
    edits               \* number of edits of number inputs so far

primVars == <<fn, args, result>>

sessionVars == <<page, company_name, industry, prefecture, input_data, has_diagnosed,
                 alert, balance, report, sheet, last_save, edits>>

vars == <<fn, args, result, page, company_name, industry, prefecture, input_data,
          has_diagnosed, alert, balance, report, sheet, last_save, edits>>

-----------------------------------------------------------------------------
(* Python values *)

None == <<"none", 0, 1>>
Raised == <<"err", 0, 1>>

IsNum(v) == v[1] = "num"

Abs(x) == IF x < 0 THEN -x ELSE x

RECURSIVE Gcd(_, _)
Gcd(a, b) == IF b = 0 THEN a ELSE Gcd(b, a % b)

\* The number n/d (d # 0) in lowest terms with a positive denominator.
Norm(n, d) ==
    LET g == Gcd(Abs(n), Abs(d))
        s == IF d < 0 THEN -1 ELSE 1
    IN  <<"num", (s * n) \div g, Abs(d) \div g>>

\* A Python int as a value.
I(n) == <<"num", n, 1>>

Zero == I(0)

PyAdd(a, b) ==
    IF IsNum(a) /\ IsNum(b) THEN Norm(a[2] * b[3] + b[2] * a[3], a[3] * b[3]) ELSE Raised

PySub(a, b) ==
    IF IsNum(a) /\ IsNum(b) THEN Norm(a[2] * b[3] - b[2] * a[3], a[3] * b[3]) ELSE Raised

PyMul(a, b) ==
    IF IsNum(a) /\ IsNum(b) THEN Norm(a[2] * b[2], a[3] * b[3]) ELSE Raised

\* Python's true division a / b: ZeroDivisionError when b == 0.
PyDiv(a, b) ==
    IF IsNum(a) /\ IsNum(b) /\ b[2] # 0 THEN Norm(a[2] * b[3], a[3] * b[2]) ELSE Raised

\* Comparisons of two numbers (callers check IsNum first).
NumLe(a, b) == a[2] * b[3] <= b[2] * a[3]
NumGe(a, b) == a[2] * b[3] >= b[2] * a[3]
NumLt(a, b) == a[2] * b[3] < b[2] * a[3]
NumGt(a, b) == a[2] * b[3] > b[2] * a[3]

-----------------------------------------------------------------------------
(* The helper functions (identical text in both pages) *)

\* A plausible slip: guarding only against a negative denominator.
safe_div_PositiveGuard(n, d) ==
    IF ~(IsNum(n) /\ IsNum(d)) THEN Raised
    ELSE IF d[2] < 0 THEN Zero ELSE PyDiv(n, d)

\* A plausible slip: an undefined ratio, rather than 0, for a zero denominator.
safe_div_NoneOnZero(n, d) ==
    IF ~(IsNum(n) /\ IsNum(d)) THEN Raised
    ELSE IF d[2] # 0 THEN PyDiv(n, d) ELSE None

\* def safe_div(n, d): return n / d if d != 0 else 0
safe_div(n, d) ==
    IF ~(IsNum(n) /\ IsNum(d)) THEN Raised
    ELSE IF d[2] # 0 THEN PyDiv(n, d) ELSE Zero

\* A plausible slip: previous < 0 instead of previous <= 0.
calc_growth_StrictGuard(current, previous) ==
    IF ~(IsNum(current) /\ IsNum(previous)) THEN Raised
    ELSE IF NumLt(previous, Zero) THEN None
    ELSE PyMul(PyDiv(PySub(current, previous), previous), I(100))

\* def calc_growth(current, previous):
\*     if previous <= 0: return None
\*     return (current - previous) / previous * 100
calc_growth(current, previous) ==
    IF ~(IsNum(current) /\ IsNum(previous)) THEN Raised
    ELSE IF NumLe(previous, Zero) THEN None
    ELSE PyMul(PyDiv(PySub(current, previous), previous), I(100))

\* A plausible slip: strict comparisons, so a boundary value drops a tier.
calc_score_Strict(val, t1, t2, t3, t4, lower_is_better) ==
    IF val = None THEN I(1)
    ELSE IF ~IsNum(val) THEN Raised
    ELSE IF lower_is_better
         THEN IF NumLt(val, I(t4)) THEN I(5)
              ELSE IF NumLt(val, I(t3)) THEN I(4)
              ELSE IF NumLt(val, I(t2)) THEN I(3)
              ELSE IF NumLt(val, I(t1)) THEN I(2)
              ELSE I(1)
         ELSE IF NumGt(val, I(t4)) THEN I(5)
              ELSE IF NumGt(val, I(t3)) THEN I(4)
              ELSE IF NumGt(val, I(t2)) THEN I(3)
              ELSE IF NumGt(val, I(t1)) THEN I(2)
              ELSE I(1)

\* A plausible slip: the returns of two tiers swapped in one branch.
calc_score_SwappedTiers(val, t1, t2, t3, t4, lower_is_better) ==
    IF val = None THEN I(1)
    ELSE IF ~IsNum(val) THEN Raised
    ELSE IF lower_is_better
         THEN IF NumLe(val, I(t4)) THEN I(5)
              ELSE IF NumLe(val, I(t3)) THEN I(4)
              ELSE IF NumLe(val, I(t2)) THEN I(3)
              ELSE IF NumLe(val, I(t1)) THEN I(2)
              ELSE I(1)
         ELSE IF NumGe(val, I(t4)) THEN I(5)
              ELSE IF NumGe(val, I(t3)) THEN I(4)
              ELSE IF NumGe(val, I(t2)) THEN I(2)
              ELSE IF NumGe(val, I(t1)) THEN I(3)
              ELSE I(1)

\* A plausible slip: an undefined value scored 0 instead of 1.
calc_score_NoneZero(val, t1, t2, t3, t4, lower_is_better) ==
    IF val = None THEN I(0)
    ELSE IF ~IsNum(val) THEN Raised
    ELSE IF lower_is_better
         THEN IF NumLe(val, I(t4)) THEN I(5)
              ELSE IF NumLe(val, I(t3)) THEN I(4)
              ELSE IF NumLe(val, I(t2)) THEN I(3)
              ELSE IF NumLe(val, I(t1)) THEN I(2)
              ELSE I(1)
         ELSE IF NumGe(val, I(t4)) THEN I(5)
              ELSE IF NumGe(val, I(t3)) THEN I(4)
              ELSE IF NumGe(val, I(t2)) THEN I(3)
              ELSE IF NumGe(val, I(t1)) THEN I(2)
              ELSE I(1)

\* def calc_score(val, t1, t2, t3, t4, lower_is_better=False)
calc_score(val, t1, t2, t3, t4, lower_is_better) ==
    IF val = None THEN I(1)
    ELSE IF ~IsNum(val) THEN Raised
    ELSE IF lower_is_better
         THEN IF NumLe(val, I(t4)) THEN I(5)
              ELSE IF NumLe(val, I(t3)) THEN I(4)
              ELSE IF NumLe(val, I(t2)) THEN I(3)
              ELSE IF NumLe(val, I(t1)) THEN I(2)
              ELSE I(1)
         ELSE IF NumGe(val, I(t4)) THEN I(5)
              ELSE IF NumGe(val, I(t3)) THEN I(4)
              ELSE IF NumGe(val, I(t2)) THEN I(3)
              ELSE IF NumGe(val, I(t1)) THEN I(2)
              ELSE I(1)

-----------------------------------------------------------------------------
(* Rendered strings *)

\* The Japanese characters of the unit suffixes, as ASCII tokens.
CH_SEN == "[sen]"
CH_EN == "[en]"
CH_KAI == "[kai]"
CH_BAI == "[bai]"
CH_NEN == "[nen]"
CH_NICHI == "[nichi]"

\* The placeholder "-".
Placeholder == <<"-">>

\* What a rendering leaves when the expression raised instead.
StrRaised == <<"Traceback">>

Digit(k) == <<"0", "1", "2", "3", "4", "5", "6", "7", "8", "9">>[k + 1]

\* The decimal digits of n >= 0.
RECURSIVE DecDigits(_)
DecDigits(n) == IF n < 10 THEN <<Digit(n)>> ELSE DecDigits(n \div 10) \o <<Digit(n % 10)>>

\* Format spec "," of n >= 0: groups of three digits separated by commas.
RECURSIVE Grouped(_)
Grouped(n) ==
    IF n < 1000 THEN DecDigits(n)
    ELSE Grouped(n \div 1000)
         \o <<",", Digit((n % 1000) \div 100), Digit((n % 100) \div 10), Digit(n % 10)>>

\* int(val) of a number: truncation toward zero.
PyInt(val) == IF val[2] >= 0 THEN val[2] \div val[3] ELSE 0 - ((0 - val[2]) \div val[3])

\* 10 ^ k
RECURSIVE Pow10(_)
Pow10(k) == IF k = 0 THEN 1 ELSE 10 * Pow10(k - 1)

\* |val| * 10^places rounded to an integer, a tie going to the even neighbour.
\* (Python rounds the binary value of the float: a decimal tie that no float
\* holds exactly, such as 0.005, falls to the side of its binary approximation,
\* which exact rationals do not tell.  The input pairs explored produce no such
\* tie.)
RoundedScaled(val, places) ==
    LET a == Abs(val[2]) * Pow10(places)
        q == a \div val[3]
        r == a % val[3]
    IN  IF 2 * r > val[3] THEN q + 1
        ELSE IF 2 * r < val[3] THEN q
        ELSE IF q % 2 = 0 THEN q ELSE q + 1

\* The last k digits of n, zero padded.
RECURSIVE LastDigits(_, _)
LastDigits(n, k) == IF k = 0 THEN <<>> ELSE LastDigits(n \div 10, k - 1) \o <<Digit(n % 10)>>

\* Format spec ".<places>f" of a number; a negative value keeps its sign
\* even when it rounds to zero.
FormatFixed(val, places) ==
    LET m == RoundedScaled(val, places)
    IN  (IF val[2] < 0 THEN <<"-">> ELSE <<>>)
        \o DecDigits(m \div Pow10(places)) \o <<".">> \o LastDigits(m, places)

\* Format spec "," of an int.
FormatGrouped(n) == (IF n < 0 THEN <<"-">> ELSE <<>>) \o Grouped(Abs(n))

\* str.replace(old, new) for one-character old and new.
Replace(str, old, new) == [i \in 1 .. Len(str) |-> IF str[i] = old THEN new ELSE str[i]]

\* def fmt_yen(val): return f"{int(val):,} 千円" if val is not None else "-"
fmt_yen(val) ==
    IF val = None THEN Placeholder
    ELSE IF ~IsNum(val) THEN StrRaised
    ELSE FormatGrouped(PyInt(val)) \o <<" ", CH_SEN, CH_EN>>

\* A plausible slip: the formatter without its None guard.
fmt_pct_NoGuard(val) ==
    IF ~IsNum(val) THEN StrRaised
    ELSE FormatFixed(val, 1) \o <<"%">>

\* def fmt_pct(val): return f"{val:.1f}%" if val is not None else "-"
fmt_pct(val) ==
    IF val = None THEN Placeholder
    ELSE IF ~IsNum(val) THEN StrRaised
    ELSE FormatFixed(val, 1) \o <<"%">>

\* def fmt_times(val): return f"{val:.2f}回" if val is not None else "-"
fmt_times(val) ==
    IF val = None THEN Placeholder
    ELSE IF ~IsNum(val) THEN StrRaised
    ELSE FormatFixed(val, 2) \o <<CH_KAI>>

\* def fmt_year(val): return f"{val:.1f}年" if val is not None else "-"
fmt_year(val) ==
    IF val = None THEN Placeholder
    ELSE IF ~IsNum(val) THEN StrRaised
    ELSE FormatFixed(val, 1) \o <<CH_NEN>>

\* def fmt_days(val): return f"{val:.1f}日" if val is not None else "-"
fmt_days(val) ==
    IF val = None THEN Placeholder
    ELSE IF ~IsNum(val) THEN StrRaised
    ELSE FormatFixed(val, 1) \o <<CH_NICHI>>

-----------------------------------------------------------------------------
(* The financial statement record *)

\* financial_analysis3.py, create_inputs: the derived subtotals layered on the
\* entered line items (Python int arithmetic).
create_inputs3(raw) ==
    LET gross_profit == raw.sales - raw.cogs
        op_profit == gross_profit - raw.sga
        ord_profit == op_profit + raw.non_op_inc - raw.non_op_exp
        current_assets == raw.cash + raw.receivables + raw.inventory + raw.other_ca
        total_assets == current_assets + raw.fixed_assets
        current_liab == raw.payables + raw.short_loan + raw.other_cl
        fixed_liab == raw.long_loan
        total_liab_equity == current_liab + fixed_liab + raw.net_assets
    IN  [ sales |-> raw.sales, cogs |-> raw.cogs, depreciation |-> raw.depreciation,
          gross_profit |-> gross_profit, sga |-> raw.sga, op_profit |-> op_profit,
          non_op_inc |-> raw.non_op_inc, non_op_exp |-> raw.non_op_exp,
          ord_profit |-> ord_profit, tax |-> raw.tax,
          cash |-> raw.cash, receivables |-> raw.receivables, inventory |-> raw.inventory,
          other_ca |-> raw.other_ca, current_assets |-> current_assets,
          fixed_assets |-> raw.fixed_assets, total_assets |-> total_assets,
          payables |-> raw.payables, short_loan |-> raw.short_loan,
          other_cl |-> raw.other_cl, current_liab |-> current_liab,
          long_loan |-> raw.long_loan, fixed_liab |-> fixed_liab,
          net_assets |-> raw.net_assets, total_liab_equity |-> total_liab_equity,
          employees |-> raw.employees ]

\* financial_analysis4.py, create_inputs: as above, with the extraordinary
\* items, pre-tax profit and net profit.
create_inputs4(raw) ==
    LET gross_profit == raw.sales - raw.cogs
        op_profit == gross_profit - raw.sga
        ord_profit == op_profit + raw.non_op_inc - raw.non_op_exp
        pre_tax_profit == ord_profit + raw.extra_inc - raw.extra_exp
        net_profit == pre_tax_profit - raw.tax
        current_assets == raw.cash + raw.receivables + raw.inventory + raw.other_ca
        total_assets == current_assets + raw.fixed_assets
        current_liab == raw.payables + raw.short_loan + raw.other_cl
        fixed_liab == raw.long_loan
        total_liab_equity == current_liab + fixed_liab + raw.net_assets
    IN  [ sales |-> raw.sales, cogs |-> raw.cogs, depreciation |-> raw.depreciation,
          gross_profit |-> gross_profit, sga |-> raw.sga, op_profit |-> op_profit,
          non_op_inc |-> raw.non_op_inc, non_op_exp |-> raw.non_op_exp,
          ord_profit |-> ord_profit, extra_inc |-> raw.extra_inc,
          extra_exp |-> raw.extra_exp, pre_tax_profit |-> pre_tax_profit,
          tax |-> raw.tax, net_profit |-> net_profit,
          cash |-> raw.cash, receivables |-> raw.receivables, inventory |-> raw.inventory,
          other_ca |-> raw.other_ca, current_assets |-> current_assets,
          fixed_assets |-> raw.fixed_assets, total_assets |-> total_assets,
          payables |-> raw.payables, short_loan |-> raw.short_loan,
          other_cl |-> raw.other_cl, current_liab |-> current_liab,
          long_loan |-> raw.long_loan, fixed_liab |-> fixed_liab,
          net_assets |-> raw.net_assets, total_liab_equity |-> total_liab_equity,
          employees |-> raw.employees ]

\* A plausible slip: only an excess of assets is reported.
balance_message_PositiveOnly(d) ==
    LET diff == d.total_assets - d.total_liab_equity
    IN  IF diff > 0 THEN <<"error", fmt_yen(I(diff))>> ELSE <<"success", Placeholder>>

\* The balance check at the end of create_inputs: st.error on a difference,
\* st.success otherwise; the record is returned either way.
balance_message(d) ==
    LET diff == d.total_assets - d.total_liab_equity
    IN  IF diff # 0 THEN <<"error", fmt_yen(I(diff))>> ELSE <<"success", Placeholder>>

-----------------------------------------------------------------------------
(* The KPI engine.  The same statements appear three times in the source:  *)
(* in financial_analysis3.py, and in financial_analysis4.py at submit time *)
(* and at display time.  Each occurrence is modelled by its own operator.  *)

\* The score categories, in the insertion order of the scores dict.
Categories == <<"profitability", "growth", "efficiency", "productivity", "safety">>

\* The units of the KPI table.
UNIT_PCT == "%"
UNIT_YEN == "[sen][en]"
UNIT_KAI == "[kai]"
UNIT_BAI == "[bai]"
UNIT_NEN == "[nen]"
UNIT_NICHI == "[nichi]"

\* A plausible slip: a 360-day year in the inventory days.
ratios3_Days360(c, p) ==
    LET c_cf == c.ord_profit + c.depreciation - c.tax
        p_cf == p.ord_profit + p.depreciation - p.tax
    IN  [ c_op_margin |-> PyMul(safe_div(I(c.op_profit), I(c.sales)), I(100)),
          c_fcf |-> PySub(PyAdd(PyMul(I(c.op_profit), Norm(6, 10)), I(c.depreciation)),
                          PyAdd(I(c.fixed_assets - p.fixed_assets), I(c.depreciation))),
          c_sales_growth |-> calc_growth(I(c.sales), I(p.sales)),
          c_op_growth |-> calc_growth(I(c.op_profit), I(p.op_profit)),
          c_fixed_turn |-> safe_div(I(c.sales), I(c.fixed_assets)),
          c_inv_days |-> safe_div(I(c.inventory), PyDiv(I(c.cogs), I(360))),
          c_sales_per_emp |-> safe_div(I(c.sales), I(c.employees)),
          c_op_per_emp |-> safe_div(I(c.op_profit), I(c.employees)),
          c_equity_ratio |-> PyMul(safe_div(I(c.net_assets), I(c.total_assets)), I(100)),
          c_loan_sales_ratio |-> safe_div(I(c.short_loan + c.long_loan), PyDiv(I(c.sales), I(12))),
          c_current_ratio |-> PyMul(safe_div(I(c.current_assets), I(c.current_liab)), I(100)),
          c_working_capital |-> I(c.current_assets - c.current_liab),
          c_redemption |-> IF c_cf > 0 THEN safe_div(I(c.short_loan + c.long_loan), I(c_cf))
                           ELSE I(0),
          p_op_margin |-> PyMul(safe_div(I(p.op_profit), I(p.sales)), I(100)),
          p_equity_ratio |-> PyMul(safe_div(I(p.net_assets), I(p.total_assets)), I(100)),
          p_loan_sales_ratio |-> safe_div(I(p.short_loan + p.long_loan), PyDiv(I(p.sales), I(12))),
          p_fixed_turn |-> safe_div(I(p.sales), I(p.fixed_assets)),
          p_inv_days |-> safe_div(I(p.inventory), PyDiv(I(p.cogs), I(360))),
          p_sales_per_emp |-> safe_div(I(p.sales), I(p.employees)),
          p_op_per_emp |-> safe_div(I(p.op_profit), I(p.employees)),
          p_current_ratio |-> PyMul(safe_div(I(p.current_assets), I(p.current_liab)), I(100)),
          p_working_capital |-> I(p.current_assets - p.current_liab),
          p_redemption |-> IF p_cf > 0 THEN safe_div(I(p.short_loan + p.long_loan), I(p_cf))
                           ELSE I(0) ]

\* A plausible slip: the repayment years undefined when the cash flow is not positive.
ratios3_RedemptionUndefined(c, p) ==
    LET c_cf == c.ord_profit + c.depreciation - c.tax
        p_cf == p.ord_profit + p.depreciation - p.tax
    IN  [ c_op_margin |-> PyMul(safe_div(I(c.op_profit), I(c.sales)), I(100)),
          c_fcf |-> PySub(PyAdd(PyMul(I(c.op_profit), Norm(6, 10)), I(c.depreciation)),
                          PyAdd(I(c.fixed_assets - p.fixed_assets), I(c.depreciation))),
          c_sales_growth |-> calc_growth(I(c.sales), I(p.sales)),
          c_op_growth |-> calc_growth(I(c.op_profit), I(p.op_profit)),
          c_fixed_turn |-> safe_div(I(c.sales), I(c.fixed_assets)),
          c_inv_days |-> safe_div(I(c.inventory), PyDiv(I(c.cogs), I(365))),
          c_sales_per_emp |-> safe_div(I(c.sales), I(c.employees)),
          c_op_per_emp |-> safe_div(I(c.op_profit), I(c.employees)),
          c_equity_ratio |-> PyMul(safe_div(I(c.net_assets), I(c.total_assets)), I(100)),
          c_loan_sales_ratio |-> safe_div(I(c.short_loan + c.long_loan), PyDiv(I(c.sales), I(12))),
          c_current_ratio |-> PyMul(safe_div(I(c.current_assets), I(c.current_liab)), I(100)),
          c_working_capital |-> I(c.current_assets - c.current_liab),
          c_redemption |-> IF c_cf > 0 THEN safe_div(I(c.short_loan + c.long_loan), I(c_cf))
                           ELSE None,
          p_op_margin |-> PyMul(safe_div(I(p.op_profit), I(p.sales)), I(100)),
          p_equity_ratio |-> PyMul(safe_div(I(p.net_assets), I(p.total_assets)), I(100)),
          p_loan_sales_ratio |-> safe_div(I(p.short_loan + p.long_loan), PyDiv(I(p.sales), I(12))),
          p_fixed_turn |-> safe_div(I(p.sales), I(p.fixed_assets)),
          p_inv_days |-> safe_div(I(p.inventory), PyDiv(I(p.cogs), I(365))),
          p_sales_per_emp |-> safe_div(I(p.sales), I(p.employees)),
          p_op_per_emp |-> safe_div(I(p.op_profit), I(p.employees)),
          p_current_ratio |-> PyMul(safe_div(I(p.current_assets), I(p.current_liab)), I(100)),
          p_working_capital |-> I(p.current_assets - p.current_liab),
          p_redemption |-> IF p_cf > 0 THEN safe_div(I(p.short_loan + p.long_loan), I(p_cf))
                           ELSE None ]

\* financial_analysis3.py lines 167-191: the ratio statements.
ratios3(c, p) ==
    LET c_cf == c.ord_profit + c.depreciation - c.tax
        p_cf == p.ord_profit + p.depreciation - p.tax
    IN  [ c_op_margin |-> PyMul(safe_div(I(c.op_profit), I(c.sales)), I(100)),
          c_fcf |-> PySub(PyAdd(PyMul(I(c.op_profit), Norm(6, 10)), I(c.depreciation)),
                          PyAdd(I(c.fixed_assets - p.fixed_assets), I(c.depreciation))),
          c_sales_growth |-> calc_growth(I(c.sales), I(p.sales)),
          c_op_growth |-> calc_growth(I(c.op_profit), I(p.op_profit)),
          c_fixed_turn |-> safe_div(I(c.sales), I(c.fixed_assets)),
          c_inv_days |-> safe_div(I(c.inventory), PyDiv(I(c.cogs), I(365))),
          c_sales_per_emp |-> safe_div(I(c.sales), I(c.employees)),
          c_op_per_emp |-> safe_div(I(c.op_profit), I(c.employees)),
          c_equity_ratio |-> PyMul(safe_div(I(c.net_assets), I(c.total_assets)), I(100)),
          c_loan_sales_ratio |-> safe_div(I(c.short_loan + c.long_loan), PyDiv(I(c.sales), I(12))),
          c_current_ratio |-> PyMul(safe_div(I(c.current_assets), I(c.current_liab)), I(100)),
          c_working_capital |-> I(c.current_assets - c.current_liab),
          c_redemption |-> IF c_cf > 0 THEN safe_div(I(c.short_loan + c.long_loan), I(c_cf))
                           ELSE I(0),
          p_op_margin |-> PyMul(safe_div(I(p.op_profit), I(p.sales)), I(100)),
          p_equity_ratio |-> PyMul(safe_div(I(p.net_assets), I(p.total_assets)), I(100)),
          p_loan_sales_ratio |-> safe_div(I(p.short_loan + p.long_loan), PyDiv(I(p.sales), I(12))),
          p_fixed_turn |-> safe_div(I(p.sales), I(p.fixed_assets)),
          p_inv_days |-> safe_div(I(p.inventory), PyDiv(I(p.cogs), I(365))),
          p_sales_per_emp |-> safe_div(I(p.sales), I(p.employees)),
          p_op_per_emp |-> safe_div(I(p.op_profit), I(p.employees)),
          p_current_ratio |-> PyMul(safe_div(I(p.current_assets), I(p.current_liab)), I(100)),
          p_working_capital |-> I(p.current_assets - p.current_liab),
          p_redemption |-> IF p_cf > 0 THEN safe_div(I(p.short_loan + p.long_loan), I(p_cf))
                           ELSE I(0) ]

\* financial_analysis4.py lines 280-306 (submit time): the ratio statements.
ratios_submit4(c, p) ==
    LET c_cf == c.ord_profit + c.depreciation - c.tax
        p_cf == p.ord_profit + p.depreciation - p.tax
    IN  [ c_op_margin |-> PyMul(safe_div(I(c.op_profit), I(c.sales)), I(100)),
          c_fcf |-> PySub(PyAdd(PyMul(I(c.op_profit), Norm(6, 10)), I(c.depreciation)),
                          PyAdd(I(c.fixed_assets - p.fixed_assets), I(c.depreciation))),
          c_sales_growth |-> calc_growth(I(c.sales), I(p.sales)),
          c_op_growth |-> calc_growth(I(c.op_profit), I(p.op_profit)),
          c_fixed_turn |-> safe_div(I(c.sales), I(c.fixed_assets)),
          c_inv_days |-> safe_div(I(c.inventory), PyDiv(I(c.cogs), I(365))),
          c_sales_per_emp |-> safe_div(I(c.sales), I(c.employees)),
          c_op_per_emp |-> safe_div(I(c.op_profit), I(c.employees)),
          c_equity_ratio |-> PyMul(safe_div(I(c.net_assets), I(c.total_assets)), I(100)),
          c_loan_sales_ratio |-> safe_div(I(c.short_loan + c.long_loan), PyDiv(I(c.sales), I(12))),
          c_current_ratio |-> PyMul(safe_div(I(c.current_assets), I(c.current_liab)), I(100)),
          c_working_capital |-> I(c.current_assets - c.current_liab),
          c_redemption |-> IF c_cf > 0 THEN safe_div(I(c.short_loan + c.long_loan), I(c_cf))
                           ELSE I(0),
          p_op_margin |-> PyMul(safe_div(I(p.op_profit), I(p.sales)), I(100)),
          p_equity_ratio |-> PyMul(safe_div(I(p.net_assets), I(p.total_assets)), I(100)),
          p_loan_sales_ratio |-> safe_div(I(p.short_loan + p.long_loan), PyDiv(I(p.sales), I(12))),
          p_fixed_turn |-> safe_div(I(p.sales), I(p.fixed_assets)),
          p_inv_days |-> safe_div(I(p.inventory), PyDiv(I(p.cogs), I(365))),
          p_sales_per_emp |-> safe_div(I(p.sales), I(p.employees)),
          p_op_per_emp |-> safe_div(I(p.op_profit), I(p.employees)),
          p_current_ratio |-> PyMul(safe_div(I(p.current_assets), I(p.current_liab)), I(100)),
          p_working_capital |-> I(p.current_assets - p.current_liab),
          p_redemption |-> IF p_cf > 0 THEN safe_div(I(p.short_loan + p.long_loan), I(p_cf))
                           ELSE I(0) ]

\* financial_analysis4.py lines 349-376 (display time): the ratio statements.
ratios_display4(c, p) ==
    LET c_cf == c.ord_profit + c.depreciation - c.tax
        p_cf == p.ord_profit + p.depreciation - p.tax
    IN  [ c_op_margin |-> PyMul(safe_div(I(c.op_profit), I(c.sales)), I(100)),
          c_fcf |-> PySub(PyAdd(PyMul(I(c.op_profit), Norm(6, 10)), I(c.depreciation)),
                          PyAdd(I(c.fixed_assets - p.fixed_assets), I(c.depreciation))),
          c_sales_growth |-> calc_growth(I(c.sales), I(p.sales)),
          c_op_growth |-> calc_growth(I(c.op_profit), I(p.op_profit)),
          c_fixed_turn |-> safe_div(I(c.sales), I(c.fixed_assets)),
          c_inv_days |-> safe_div(I(c.inventory), PyDiv(I(c.cogs), I(365))),
          c_sales_per_emp |-> safe_div(I(c.sales), I(c.employees)),
          c_op_per_emp |-> safe_div(I(c.op_profit), I(c.employees)),
          c_equity_ratio |-> PyMul(safe_div(I(c.net_assets), I(c.total_assets)), I(100)),
          c_loan_sales_ratio |-> safe_div(I(c.short_loan + c.long_loan), PyDiv(I(c.sales), I(12))),
          c_current_ratio |-> PyMul(safe_div(I(c.current_assets), I(c.current_liab)), I(100)),
          c_working_capital |-> I(c.current_assets - c.current_liab),
          c_redemption |-> IF c_cf > 0 THEN safe_div(I(c.short_loan + c.long_loan), I(c_cf))
                           ELSE I(0),
          p_op_margin |-> PyMul(safe_div(I(p.op_profit), I(p.sales)), I(100)),
          p_equity_ratio |-> PyMul(safe_div(I(p.net_assets), I(p.total_assets)), I(100)),
          p_loan_sales_ratio |-> safe_div(I(p.short_loan + p.long_loan), PyDiv(I(p.sales), I(12))),
          p_fixed_turn |-> safe_div(I(p.sales), I(p.fixed_assets)),
          p_inv_days |-> safe_div(I(p.inventory), PyDiv(I(p.cogs), I(365))),
          p_sales_per_emp |-> safe_div(I(p.sales), I(p.employees)),
          p_op_per_emp |-> safe_div(I(p.op_profit), I(p.employees)),
          p_current_ratio |-> PyMul(safe_div(I(p.current_assets), I(p.current_liab)), I(100)),
          p_working_capital |-> I(p.current_assets - p.current_liab),
          p_redemption |-> IF p_cf > 0 THEN safe_div(I(p.short_loan + p.long_loan), I(p_cf))
                           ELSE I(0) ]

\* A plausible slip: the turnaround override left out.
score_op_growth3_NoOverride(r, c, p) ==
    calc_score(r.c_op_growth, 0, 3, 5, 10, FALSE)

\* financial_analysis3.py: the operating-profit-growth score with the turnaround override.
score_op_growth3(r, c, p) ==
    LET score == calc_score(r.c_op_growth, 0, 3, 5, 10, FALSE)
    IN  IF score = Raised THEN Raised
        ELSE IF p.op_profit <= 0 /\ c.op_profit > 0 THEN I(5)
        ELSE score

\* A plausible slip: inventory days scored as if higher were better.
scores3_InvDaysHigherBetter(r, c, p) ==
    LET score_sales_growth == calc_score(r.c_sales_growth, 0, 3, 5, 10, FALSE)
    IN  [ profitability |->
              PyDiv(PyAdd(calc_score(r.c_op_margin, 0, 2, 5, 10, FALSE),
                          calc_score(r.c_fcf, -1000, 0, 1000, 5000, FALSE)), I(2)),
          growth |->
              PyDiv(PyAdd(score_sales_growth, score_op_growth3(r, c, p)), I(2)),
          efficiency |->
              PyDiv(PyAdd(calc_score(r.c_fixed_turn, 1, 3, 5, 10, FALSE),
                          calc_score(r.c_inv_days, 30, 60, 90, 180, FALSE)), I(2)),
          productivity |->
              PyDiv(PyAdd(calc_score(r.c_sales_per_emp, 10000, 15000, 20000, 30000, FALSE),
                          calc_score(r.c_op_per_emp, 0, 500, 1000, 2000, FALSE)), I(2)),
          safety |->
              PyDiv(PyAdd(calc_score(r.c_equity_ratio, 10, 20, 40, 60, FALSE),
                          calc_score(r.c_loan_sales_ratio, 12, 6, 3, 1, TRUE)), I(2)) ]

\* financial_analysis3.py: score_sales_growth and the scores dict.
scores3(r, c, p) ==
    LET score_sales_growth == calc_score(r.c_sales_growth, 0, 3, 5, 10, FALSE)
    IN  [ profitability |->
              PyDiv(PyAdd(calc_score(r.c_op_margin, 0, 2, 5, 10, FALSE),
                          calc_score(r.c_fcf, -1000, 0, 1000, 5000, FALSE)), I(2)),
          growth |->
              PyDiv(PyAdd(score_sales_growth, score_op_growth3(r, c, p)), I(2)),
          efficiency |->
              PyDiv(PyAdd(calc_score(r.c_fixed_turn, 1, 3, 5, 10, FALSE),
                          calc_score(r.c_inv_days, 180, 90, 60, 30, TRUE)), I(2)),
          productivity |->
              PyDiv(PyAdd(calc_score(r.c_sales_per_emp, 10000, 15000, 20000, 30000, FALSE),
                          calc_score(r.c_op_per_emp, 0, 500, 1000, 2000, FALSE)), I(2)),
          safety |->
              PyDiv(PyAdd(calc_score(r.c_equity_ratio, 10, 20, 40, 60, FALSE),
                          calc_score(r.c_loan_sales_ratio, 12, 6, 3, 1, TRUE)), I(2)) ]

\* financial_analysis3.py: avg_score = sum(scores.values()) / 5
avg_score3(scores) ==
    PyDiv(PyAdd(PyAdd(PyAdd(PyAdd(PyAdd(I(0), scores.profitability), scores.growth),
                            scores.efficiency), scores.productivity), scores.safety), I(5))

\* financial_analysis3.py: the prior-period radar values: 3 for every category, except
\* profitability, which is the score of the prior operating margin.
p_scores_val3(r) ==
    [ profitability |-> calc_score(r.p_op_margin, 0, 2, 5, 10, FALSE),
      growth |-> I(3), efficiency |-> I(3), productivity |-> I(3), safety |-> I(3) ]

\* financial_analysis3.py: the message beside the radar chart.
score_message3(avg) ==
    IF ~IsNum(avg) THEN "raised"
    ELSE IF NumGe(avg, I(4)) THEN "success"
    ELSE IF NumGe(avg, I(3)) THEN "info"
    ELSE "error"

\* financial_analysis3.py: the KPI table, in order.
kpi_definitions3(r) ==
    << [cat |-> "profitability", name |-> "op_margin", curr_v |-> r.c_op_margin,
        unit |-> UNIT_PCT, prev_v |-> r.p_op_margin],
       [cat |-> "profitability", name |-> "fcf", curr_v |-> r.c_fcf,
        unit |-> UNIT_YEN, prev_v |-> None],
       [cat |-> "growth", name |-> "sales_growth", curr_v |-> r.c_sales_growth,
        unit |-> UNIT_PCT, prev_v |-> None],
       [cat |-> "growth", name |-> "op_growth", curr_v |-> r.c_op_growth,
        unit |-> UNIT_PCT, prev_v |-> None],
       [cat |-> "efficiency", name |-> "fixed_turn", curr_v |-> r.c_fixed_turn,
        unit |-> UNIT_KAI, prev_v |-> r.p_fixed_turn],
       [cat |-> "efficiency", name |-> "inv_days", curr_v |-> r.c_inv_days,
        unit |-> UNIT_NICHI, prev_v |-> r.p_inv_days],
       [cat |-> "productivity", name |-> "sales_per_emp", curr_v |-> r.c_sales_per_emp,
        unit |-> UNIT_YEN, prev_v |-> r.p_sales_per_emp],
       [cat |-> "productivity", name |-> "op_per_emp", curr_v |-> r.c_op_per_emp,
        unit |-> UNIT_YEN, prev_v |-> r.p_op_per_emp],
       [cat |-> "safety", name |-> "equity_ratio", curr_v |-> r.c_equity_ratio,
        unit |-> UNIT_PCT, prev_v |-> r.p_equity_ratio],
       [cat |-> "safety", name |-> "working_capital", curr_v |-> r.c_working_capital,
        unit |-> UNIT_YEN, prev_v |-> r.p_working_capital],
       [cat |-> "safety", name |-> "current_ratio", curr_v |-> r.c_current_ratio,
        unit |-> UNIT_PCT, prev_v |-> r.p_current_ratio],
       [cat |-> "safety", name |-> "redemption", curr_v |-> r.c_redemption,
        unit |-> UNIT_NEN, prev_v |-> r.p_redemption],
       [cat |-> "safety", name |-> "loan_sales_ratio", curr_v |-> r.c_loan_sales_ratio,
        unit |-> UNIT_BAI, prev_v |-> r.p_loan_sales_ratio] >>

\* financial_analysis3.py: the formatter chosen by the unit, applied to one value.
disp3(unit, v) ==
    IF unit = UNIT_PCT THEN fmt_pct(v)
    ELSE IF unit = UNIT_YEN THEN fmt_yen(v)
    ELSE IF unit = UNIT_KAI THEN fmt_times(v)
    ELSE IF unit = UNIT_BAI THEN Replace(fmt_times(v), CH_KAI, CH_BAI)
    ELSE IF unit = UNIT_NEN THEN fmt_year(v)
    ELSE IF unit = UNIT_NICHI THEN fmt_days(v)
    ELSE StrRaised

\* A plausible slip: a missing prior value taken as zero.
delta_val3_PriorZero(k) ==
    LET prev == IF k.prev_v = None THEN Zero ELSE k.prev_v
    IN  IF k.curr_v # None
        THEN IF k.unit # UNIT_YEN
             THEN (IF IsNum(PySub(k.curr_v, prev))
                   THEN FormatFixed(PySub(k.curr_v, prev), 1) ELSE StrRaised)
             ELSE fmt_yen(PySub(k.curr_v, prev))
        ELSE Placeholder

\* A plausible slip: the delta formatted by the formatter of the KPI's unit.
delta_val3_UnitFormatter(k) ==
    IF k.prev_v # None /\ k.curr_v # None
    THEN disp3(k.unit, PySub(k.curr_v, k.prev_v))
    ELSE Placeholder

\* financial_analysis3.py: the delta string of one KPI.
delta_val3(k) ==
    IF k.prev_v # None /\ k.curr_v # None
    THEN IF k.unit # UNIT_YEN
         THEN (IF IsNum(PySub(k.curr_v, k.prev_v))
               THEN FormatFixed(PySub(k.curr_v, k.prev_v), 1) ELSE StrRaised)
         ELSE fmt_yen(PySub(k.curr_v, k.prev_v))
    ELSE Placeholder

\* financial_analysis3.py: the loop over kpi_definitions, which adds the three strings.
rendered_kpis3(r) ==
    LET defs == kpi_definitions3(r)
    IN  [ i \in 1 .. Len(defs) |->
            [ cat |-> defs[i].cat, name |-> defs[i].name, curr_v |-> defs[i].curr_v,
              unit |-> defs[i].unit, prev_v |-> defs[i].prev_v,
              curr_disp |-> disp3(defs[i].unit, defs[i].curr_v),
              prev_disp |-> disp3(defs[i].unit, defs[i].prev_v),
              delta |-> delta_val3(defs[i]) ] ]

\* A plausible slip: the two copies drift apart, the submit-time one without
\* the turnaround override.
score_op_growth_submit4_NoOverride(r, c, p) ==
    calc_score(r.c_op_growth, 0, 3, 5, 10, FALSE)

\* financial_analysis4.py, submit time: the operating-profit-growth score with the turnaround override.
score_op_growth_submit4(r, c, p) ==
    LET score == calc_score(r.c_op_growth, 0, 3, 5, 10, FALSE)
    IN  IF score = Raised THEN Raised
        ELSE IF p.op_profit <= 0 /\ c.op_profit > 0 THEN I(5)
        ELSE score

\* financial_analysis4.py, submit time: score_sales_growth and the scores dict.
scores_submit4(r, c, p) ==
    LET score_sales_growth == calc_score(r.c_sales_growth, 0, 3, 5, 10, FALSE)
    IN  [ profitability |->
              PyDiv(PyAdd(calc_score(r.c_op_margin, 0, 2, 5, 10, FALSE),
                          calc_score(r.c_fcf, -1000, 0, 1000, 5000, FALSE)), I(2)),
          growth |->
              PyDiv(PyAdd(score_sales_growth, score_op_growth_submit4(r, c, p)), I(2)),
          efficiency |->
              PyDiv(PyAdd(calc_score(r.c_fixed_turn, 1, 3, 5, 10, FALSE),
                          calc_score(r.c_inv_days, 180, 90, 60, 30, TRUE)), I(2)),
          productivity |->
              PyDiv(PyAdd(calc_score(r.c_sales_per_emp, 10000, 15000, 20000, 30000, FALSE),
                          calc_score(r.c_op_per_emp, 0, 500, 1000, 2000, FALSE)), I(2)),
          safety |->
              PyDiv(PyAdd(calc_score(r.c_equity_ratio, 10, 20, 40, 60, FALSE),
                          calc_score(r.c_loan_sales_ratio, 12, 6, 3, 1, TRUE)), I(2)) ]

\* financial_analysis4.py, submit time: avg_score = sum(scores.values()) / 5
avg_score_submit4(scores) ==
    PyDiv(PyAdd(PyAdd(PyAdd(PyAdd(PyAdd(I(0), scores.profitability), scores.growth),
                            scores.efficiency), scores.productivity), scores.safety), I(5))

\* financial_analysis4.py, display time: the operating-profit-growth score with the turnaround override.
score_op_growth_display4(r, c, p) ==
    LET score == calc_score(r.c_op_growth, 0, 3, 5, 10, FALSE)
    IN  IF score = Raised THEN Raised
        ELSE IF p.op_profit <= 0 /\ c.op_profit > 0 THEN I(5)
        ELSE score

\* financial_analysis4.py, display time: score_sales_growth and the scores dict.
scores_display4(r, c, p) ==
    LET score_sales_growth == calc_score(r.c_sales_growth, 0, 3, 5, 10, FALSE)
    IN  [ profitability |->
              PyDiv(PyAdd(calc_score(r.c_op_margin, 0, 2, 5, 10, FALSE),
                          calc_score(r.c_fcf, -1000, 0, 1000, 5000, FALSE)), I(2)),
          growth |->
              PyDiv(PyAdd(score_sales_growth, score_op_growth_display4(r, c, p)), I(2)),
          efficiency |->
              PyDiv(PyAdd(calc_score(r.c_fixed_turn, 1, 3, 5, 10, FALSE),
                          calc_score(r.c_inv_days, 180, 90, 60, 30, TRUE)), I(2)),
          productivity |->
              PyDiv(PyAdd(calc_score(r.c_sales_per_emp, 10000, 15000, 20000, 30000, FALSE),
                          calc_score(r.c_op_per_emp, 0, 500, 1000, 2000, FALSE)), I(2)),
          safety |->
              PyDiv(PyAdd(calc_score(r.c_equity_ratio, 10, 20, 40, 60, FALSE),
                          calc_score(r.c_loan_sales_ratio, 12, 6, 3, 1, TRUE)), I(2)) ]

\* financial_analysis4.py, display time: avg_score = sum(scores.values()) / 5
avg_score_display4(scores) ==
    PyDiv(PyAdd(PyAdd(PyAdd(PyAdd(PyAdd(I(0), scores.profitability), scores.growth),
                            scores.efficiency), scores.productivity), scores.safety), I(5))

\* financial_analysis4.py: the prior-period radar values: 3 for every category, except
\* profitability, which is the score of the prior operating margin.
p_scores_val4(r) ==
    [ profitability |-> calc_score(r.p_op_margin, 0, 2, 5, 10, FALSE),
      growth |-> I(3), efficiency |-> I(3), productivity |-> I(3), safety |-> I(3) ]

\* financial_analysis4.py: the message beside the radar chart.
score_message4(avg) ==
    IF ~IsNum(avg) THEN "raised"
    ELSE IF NumGe(avg, I(4)) THEN "success"
    ELSE IF NumGe(avg, I(3)) THEN "info"
    ELSE "error"

\* financial_analysis4.py: the KPI table, in order.
kpi_definitions4(r) ==
    << [cat |-> "profitability", name |-> "op_margin", curr_v |-> r.c_op_margin,
        unit |-> UNIT_PCT, prev_v |-> r.p_op_margin],
       [cat |-> "profitability", name |-> "fcf", curr_v |-> r.c_fcf,
        unit |-> UNIT_YEN, prev_v |-> None],
       [cat |-> "growth", name |-> "sales_growth", curr_v |-> r.c_sales_growth,
        unit |-> UNIT_PCT, prev_v |-> None],
       [cat |-> "growth", name |-> "op_growth", curr_v |-> r.c_op_growth,
        unit |-> UNIT_PCT, prev_v |-> None],
       [cat |-> "efficiency", name |-> "fixed_turn", curr_v |-> r.c_fixed_turn,
        unit |-> UNIT_KAI, prev_v |-> r.p_fixed_turn],
       [cat |-> "efficiency", name |-> "inv_days", curr_v |-> r.c_inv_days,
        unit |-> UNIT_NICHI, prev_v |-> r.p_inv_days],
       [cat |-> "productivity", name |-> "sales_per_emp", curr_v |-> r.c_sales_per_emp,
        unit |-> UNIT_YEN, prev_v |-> r.p_sales_per_emp],
       [cat |-> "productivity", name |-> "op_per_emp", curr_v |-> r.c_op_per_emp,
        unit |-> UNIT_YEN, prev_v |-> r.p_op_per_emp],
       [cat |-> "safety", name |-> "equity_ratio", curr_v |-> r.c_equity_ratio,
        unit |-> UNIT_PCT, prev_v |-> r.p_equity_ratio],
       [cat |-> "safety", name |-> "working_capital", curr_v |-> r.c_working_capital,
        unit |-> UNIT_YEN, prev_v |-> r.p_working_capital],
       [cat |-> "safety", name |-> "current_ratio", curr_v |-> r.c_current_ratio,
        unit |-> UNIT_PCT, prev_v |-> r.p_current_ratio],
       [cat |-> "safety", name |-> "redemption", curr_v |-> r.c_redemption,
        unit |-> UNIT_NEN, prev_v |-> r.p_redemption],
       [cat |-> "safety", name |-> "loan_sales_ratio", curr_v |-> r.c_loan_sales_ratio,
        unit |-> UNIT_BAI, prev_v |-> r.p_loan_sales_ratio] >>

\* financial_analysis4.py: the formatter chosen by the unit, applied to one value.
disp4(unit, v) ==
    IF unit = UNIT_PCT THEN fmt_pct(v)
    ELSE IF unit = UNIT_YEN THEN fmt_yen(v)
    ELSE IF unit = UNIT_KAI THEN fmt_times(v)
    ELSE IF unit = UNIT_BAI THEN Replace(fmt_times(v), CH_KAI, CH_BAI)
    ELSE IF unit = UNIT_NEN THEN fmt_year(v)
    ELSE IF unit = UNIT_NICHI THEN fmt_days(v)
    ELSE StrRaised

\* financial_analysis4.py: the delta string of one KPI.
delta_val4(k) ==
    IF k.prev_v # None /\ k.curr_v # None
    THEN IF k.unit # UNIT_YEN
         THEN (IF IsNum(PySub(k.curr_v, k.prev_v))
               THEN FormatFixed(PySub(k.curr_v, k.prev_v), 1) ELSE StrRaised)
         ELSE fmt_yen(PySub(k.curr_v, k.prev_v))
    ELSE Placeholder

\* financial_analysis4.py: the loop over kpi_definitions, which adds the three strings.
rendered_kpis4(r) ==
    LET defs == kpi_definitions4(r)
    IN  [ i \in 1 .. Len(defs) |->
            [ cat |-> defs[i].cat, name |-> defs[i].name, curr_v |-> defs[i].curr_v,
              unit |-> defs[i].unit, prev_v |-> defs[i].prev_v,
              curr_disp |-> disp4(defs[i].unit, defs[i].curr_v),
              prev_disp |-> disp4(defs[i].unit, defs[i].prev_v),
              delta |-> delta_val4(defs[i]) ] ]

-----------------------------------------------------------------------------
(* The two pages *)

\* No option chosen (a selectbox or radio created with index=None returns None).
NoChoice == "<none>"

\* The default company name of the sample.
SampleCompany == "Sample Shoji"

\* Two of the six industry options; the first is the selectbox default of
\* financial_analysis3.py and the sample's industry in financial_analysis4.py.
IndustryOptions == {"manufacturing", "other"}

\* One of the 47 prefectures (index 12, the sample's).
PrefectureOptions == {"Tokyo"}

\* The text a user may type as company name.
CompanyNames == {"", "Acme"}

\* financial_analysis3.py: the defaults of the number inputs (both periods).
RawDefault3 ==
    [ sales |-> 100000, cogs |-> 70000, depreciation |-> 2000, sga |-> 25000,
      non_op_inc |-> 0, non_op_exp |-> 500, tax |-> 500,
      cash |-> 15000, receivables |-> 12000, inventory |-> 5000, other_ca |-> 1000,
      fixed_assets |-> 20000,
      payables |-> 8000, short_loan |-> 10000, other_cl |-> 2000, long_loan |-> 20000,
      net_assets |-> 13000, employees |-> 10 ]

\* financial_analysis4.py: every number input starts at 0.
RawZero4 ==
    [ sales |-> 0, cogs |-> 0, depreciation |-> 0, sga |-> 0,
      non_op_inc |-> 0, non_op_exp |-> 0, extra_inc |-> 0, extra_exp |-> 0, tax |-> 0,
      cash |-> 0, receivables |-> 0, inventory |-> 0, other_ca |-> 0,
      fixed_assets |-> 0,
      payables |-> 0, short_loan |-> 0, other_cl |-> 0, long_loan |-> 0,
      net_assets |-> 0, employees |-> 0 ]

\* financial_analysis4.py: the sample button's current-period values.
RawSampleCurr4 ==
    [ sales |-> 100000, cogs |-> 70000, depreciation |-> 2000, sga |-> 25000,
      non_op_inc |-> 500, non_op_exp |-> 500, extra_inc |-> 0, extra_exp |-> 0,
      tax |-> 1000,
      cash |-> 15000, receivables |-> 12000, inventory |-> 5000, other_ca |-> 1000,
      fixed_assets |-> 20000,
      payables |-> 8000, short_loan |-> 10000, other_cl |-> 2000, long_loan |-> 20000,
      net_assets |-> 13000, employees |-> 10 ]

\* financial_analysis4.py: the sample button's prior-period values.
RawSamplePrev4 ==
    [ sales |-> 90000, cogs |-> 63000, depreciation |-> 2000, sga |-> 24000,
      non_op_inc |-> 0, non_op_exp |-> 500, extra_inc |-> 0, extra_exp |-> 0,
      tax |-> 500,
      cash |-> 10000, receivables |-> 10000, inventory |-> 4000, other_ca |-> 1000,
      fixed_assets |-> 20000,
      payables |-> 7000, short_loan |-> 10000, other_cl |-> 2000, long_loan |-> 22000,
      net_assets |-> 10000, employees |-> 9 ]

\* The report section is not on the page.
NoReport == [shown |-> FALSE]

\* The timestamp column (str(datetime.now()) / str(get_jst_now())).
Now == "now"

\* The units of the export rows that are not KPI units: persons, points.
UNIT_NIN == "[nin]"
UNIT_TEN == "[ten]"

\* The description column of a KPI row (the text k['desc'] of the KPI).
desc(name) == "desc:" \o name

\* financial_analysis3.py lines 289-301: raw_data_list.
raw_data_list3(c, p) ==
    << <<"fs_pl", "sales", I(c.sales), UNIT_YEN, I(p.sales), "-">>,
       <<"fs_pl", "cogs", I(c.cogs), UNIT_YEN, I(p.cogs), "-">>,
       <<"fs_pl", "sga", I(c.sga), UNIT_YEN, I(p.sga), "-">>,
       <<"fs_pl", "op_profit", I(c.op_profit), UNIT_YEN, I(p.op_profit), "-">>,
       <<"fs_pl", "ord_profit", I(c.ord_profit), UNIT_YEN, I(p.ord_profit), "-">>,
       <<"fs_bs", "current_assets", I(c.current_assets), UNIT_YEN, I(p.current_assets), "-">>,
       <<"fs_bs", "fixed_assets", I(c.fixed_assets), UNIT_YEN, I(p.fixed_assets), "-">>,
       <<"fs_bs", "current_liab", I(c.current_liab), UNIT_YEN, I(p.current_liab), "-">>,
       <<"fs_bs", "fixed_liab", I(c.fixed_liab), UNIT_YEN, I(p.fixed_liab), "-">>,
       <<"fs_bs", "net_assets", I(c.net_assets), UNIT_YEN, I(p.net_assets), "-">>,
       <<"fs_bs", "total_loans", I(c.short_loan + c.long_loan), UNIT_YEN,
         I(p.short_loan + p.long_loan), "-">> >>

\* A plausible slip: the prior value left out of the KPI rows.
indicator_list3_NoPrior(defs) ==
    [ i \in 1 .. Len(defs) |->
        <<defs[i].cat, defs[i].name, defs[i].curr_v, defs[i].unit, None,
          desc(defs[i].name)>> ]

\* financial_analysis3.py lines 302-306: indicator_list.
indicator_list3(defs) ==
    [ i \in 1 .. Len(defs) |->
        <<defs[i].cat, defs[i].name, defs[i].curr_v, defs[i].unit, defs[i].prev_v,
          desc(defs[i].name)>> ]

\* financial_analysis3.py line 307: the rows of export_df.
export3(c, p, defs) == raw_data_list3(c, p) \o indicator_list3(defs)

\* financial_analysis4.py lines 486-495: pl_bs_items (section, key, unit).
pl_bs_items ==
    << <<"P/L", "sales", UNIT_YEN>>, <<"P/L", "cogs", UNIT_YEN>>,
       <<"P/L", "depreciation", UNIT_YEN>>, <<"P/L", "gross_profit", UNIT_YEN>>,
       <<"P/L", "sga", UNIT_YEN>>, <<"P/L", "op_profit", UNIT_YEN>>,
       <<"P/L", "non_op_inc", UNIT_YEN>>, <<"P/L", "non_op_exp", UNIT_YEN>>,
       <<"P/L", "ord_profit", UNIT_YEN>>, <<"P/L", "extra_inc", UNIT_YEN>>,
       <<"P/L", "extra_exp", UNIT_YEN>>, <<"P/L", "pre_tax_profit", UNIT_YEN>>,
       <<"P/L", "tax", UNIT_YEN>>, <<"P/L", "net_profit", UNIT_YEN>>,
       <<"B/S", "current_assets", UNIT_YEN>>, <<"B/S", "fixed_assets", UNIT_YEN>>,
       <<"B/S", "total_assets", UNIT_YEN>>, <<"B/S", "current_liab", UNIT_YEN>>,
       <<"B/S", "fixed_liab", UNIT_YEN>>, <<"B/S", "net_assets", UNIT_YEN>>,
       <<"other", "employees", UNIT_NIN>> >>

\* financial_analysis4.py lines 475-504: raw_data_list, the rows of export_df.
raw_data_list4(company, ind, pref, avg, c, p, defs) ==
    << <<"basic", "timestamp", Now, "-", "-", "-">>,
       <<"basic", "company_name", company, "-", "-", "-">>,
       <<"basic", "prefecture", pref, "-", "-", "-">>,
       <<"basic", "industry", ind, "-", "-", "-">>,
       <<"basic", "total_score", avg, UNIT_TEN, "-", "-">> >>
    \o [ i \in 1 .. Len(pl_bs_items) |->
           <<pl_bs_items[i][1], pl_bs_items[i][2], I(c[pl_bs_items[i][2]]),
             pl_bs_items[i][3], I(p[pl_bs_items[i][2]]), "-">> ]
    \o [ i \in 1 .. Len(defs) |->
           <<defs[i].cat, defs[i].name, defs[i].curr_v, defs[i].unit, defs[i].prev_v,
             desc(defs[i].name)>> ]

\* financial_analysis3.py lines 166-312: the evaluation and the report.
render_report3(company, ind, c, p) ==
    LET r == ratios3(c, p)
        sc == scores3(r, c, p)
        avg == avg_score3(sc)
    IN  [ shown |-> TRUE, company_name |-> company, industry |-> ind,
          prefecture |-> NoChoice,
          c |-> c, p |-> p, ratios |-> r,
          score_sales_growth |-> calc_score(r.c_sales_growth, 0, 3, 5, 10, FALSE),
          score_op_growth |-> score_op_growth3(r, c, p),
          scores |-> sc, p_scores_val |-> p_scores_val3(r),
          avg_score |-> avg, message |-> score_message3(avg),
          kpis |-> rendered_kpis3(r),
          export |-> export3(c, p, kpi_definitions3(r)) ]

\* financial_analysis4.py lines 346-514: the evaluation and the report.
render_report4(company, ind, pref, c, p) ==
    LET r == ratios_display4(c, p)
        sc == scores_display4(r, c, p)
        avg == avg_score_display4(sc)
    IN  [ shown |-> TRUE, company_name |-> company, industry |-> ind,
          prefecture |-> pref,
          c |-> c, p |-> p, ratios |-> r,
          score_sales_growth |-> calc_score(r.c_sales_growth, 0, 3, 5, 10, FALSE),
          score_op_growth |-> score_op_growth_display4(r, c, p),
          scores |-> sc, p_scores_val |-> p_scores_val4(r),
          avg_score |-> avg, message |-> score_message4(avg),
          kpis |-> rendered_kpis4(r),
          export |-> raw_data_list4(company, ind, pref, avg, c, p, kpi_definitions4(r)) ]

\* financial_analysis3.py lines 308-312 and 62-70: save_data and the row
\* save_to_gsheet builds from it.
save_row3(rep) ==
    << Now, rep.company_name, rep.industry, I(rep.c.sales), I(rep.c.op_profit),
       rep.avg_score, rep.ratios.c_loan_sales_ratio >>

\* The thirty columns of one period in save_row.
period_columns4(d) ==
    << I(d.sales), I(d.cogs), I(d.depreciation), I(d.gross_profit), I(d.sga),
       I(d.op_profit), I(d.non_op_inc), I(d.non_op_exp), I(d.ord_profit),
       I(d.extra_inc), I(d.extra_exp), I(d.pre_tax_profit), I(d.tax), I(d.net_profit),
       I(d.cash), I(d.receivables), I(d.inventory), I(d.other_ca), I(d.current_assets),
       I(d.fixed_assets), I(d.total_assets),
       I(d.payables), I(d.short_loan), I(d.other_cl), I(d.current_liab), I(d.long_loan),
       I(d.fixed_liab), I(d.net_assets), I(d.total_liab_equity),
       I(d.employees) >>

\* financial_analysis4.py lines 280-337: the submit-time evaluation and save_row.
save_row4(company, ind, pref, c, p) ==
    LET r == ratios_submit4(c, p)
        avg == avg_score_submit4(scores_submit4(r, c, p))
    IN  << Now, company, pref, ind, avg >>
        \o period_columns4(c) \o period_columns4(p)
        \o << r.c_op_margin, r.c_fcf, r.c_sales_growth, r.c_op_growth, r.c_fixed_turn,
              r.c_inv_days, r.c_sales_per_emp, r.c_op_per_emp, r.c_equity_ratio,
              r.c_working_capital, r.c_current_ratio, r.c_redemption,
              r.c_loan_sales_ratio >>

\* What can happen inside save_to_gsheet: the row is appended; the secrets hold
\* no service account (early return); authorizing, opening or appending raised
\* (caught and printed).
SaveOutcomes == {"appended", "no_secrets", "exception"}

\* A plausible slip: the row appended before anything that can fail.
save_to_gsheet_AppendsAlways(rows, row, outcome) == Append(rows, row)

\* save_to_gsheet: the sheet after the call.
save_to_gsheet(rows, row, outcome) == IF outcome = "appended" THEN Append(rows, row) ELSE rows

\* A plausible slip: the body of save_to_gsheet without its try/except.
save_raises_Uncaught(outcome) == outcome = "exception"

\* save_to_gsheet: whether an exception leaves the function.  The whole body is
\* inside try: ... except Exception, and the missing secret is an early return.
save_raises(outcome) == FALSE

\* Bounds of the session.
MaxEdits == 2
MaxRows == 1

\* The (period, field, value) edits of number inputs that are explored.
EditChoices ==
    { <<"curr", "sales", 0>>, <<"curr", "sales", 120000>>, <<"curr", "sga", 40000>>,
      <<"curr", "depreciation", 5000>>, <<"curr", "net_assets", 0>>,
      <<"prev", "sales", 0>>, <<"prev", "sga", 30000>> }

InitIdle == fn = "none" /\ args = [a |-> None, b |-> None, t |-> <<0, 0, 0, 0>>, lib |-> FALSE]
            /\ result = <<>>

\* financial_analysis3.py: the first run of the script.
Init3 ==
    /\ InitIdle
    /\ page = "fa3"
    /\ company_name = SampleCompany
    /\ industry = "manufacturing"
    /\ prefecture = NoChoice
    /\ input_data = [curr |-> RawDefault3, prev |-> RawDefault3]
    /\ has_diagnosed = FALSE
    /\ alert = "none"
    /\ balance = [curr |-> balance_message(create_inputs3(RawDefault3)),
                  prev |-> balance_message(create_inputs3(RawDefault3))]
    /\ report = render_report3(SampleCompany, "manufacturing",
                               create_inputs3(RawDefault3), create_inputs3(RawDefault3))
    /\ sheet = <<>>
    /\ last_save = "none"
    /\ edits = 0

\* financial_analysis4.py: the first run of the script.
Init4 ==
    /\ InitIdle
    /\ page = "fa4"
    /\ company_name = ""
    /\ industry = NoChoice
    /\ prefecture = NoChoice
    /\ input_data = [curr |-> RawZero4, prev |-> RawZero4]
    /\ has_diagnosed = FALSE
    /\ alert = "none"
    /\ balance = [curr |-> balance_message(create_inputs4(RawZero4)),
                  prev |-> balance_message(create_inputs4(RawZero4))]
    /\ report = NoReport
    /\ sheet = <<>>
    /\ last_save = "none"
    /\ edits = 0

Init == Init3 \/ Init4

\* One run of financial_analysis3.py on the widget values given: the inputs
\* are read, both balance messages shown, the report evaluated and rendered.
Run3(company, ind, data) ==
    LET c == create_inputs3(data.curr)
        p == create_inputs3(data.prev)
    IN  /\ balance' = [curr |-> balance_message(c), prev |-> balance_message(p)]
        /\ report' = render_report3(company, ind, c, p)

\* A plausible slip: the report section outside the if on the flag.
Run4_Ungated(company, ind, pref, data, flag) ==
    LET c == create_inputs4(data.curr)
        p == create_inputs4(data.prev)
    IN  /\ balance' = [curr |-> balance_message(c), prev |-> balance_message(p)]
        /\ report' = render_report4(company, ind, pref, c, p)

\* One run of financial_analysis4.py with no button pressed: the report is
\* evaluated and rendered only under the flag.
Run4(company, ind, pref, data, flag) ==
    LET c == create_inputs4(data.curr)
        p == create_inputs4(data.prev)
    IN  /\ balance' = [curr |-> balance_message(c), prev |-> balance_message(p)]
        /\ report' = IF flag THEN render_report4(company, ind, pref, c, p) ELSE NoReport

\* A number input is changed (financial_analysis3.py): the script re-runs.
Edit3 ==
    /\ page = "fa3" /\ edits < MaxEdits
    /\ \E ch \in EditChoices :
          /\ input_data[ch[1]][ch[2]] # ch[3]
          /\ input_data' = [input_data EXCEPT ![ch[1]][ch[2]] = ch[3]]
          /\ Run3(company_name, industry, input_data')
    /\ edits' = edits + 1
    /\ last_save' = "none"
    /\ UNCHANGED <<primVars, page, company_name, industry, prefecture, has_diagnosed,
                   alert, sheet>>

\* The company name is changed (financial_analysis3.py).
SetCompany3 ==
    /\ page = "fa3"
    /\ \E v \in CompanyNames :
          /\ v # company_name
          /\ company_name' = v
          /\ Run3(v, industry, input_data)
    /\ last_save' = "none"
    /\ UNCHANGED <<primVars, page, industry, prefecture, input_data, has_diagnosed,
                   alert, sheet, edits>>

\* Another industry is selected (financial_analysis3.py).
SetIndustry3 ==
    /\ page = "fa3"
    /\ \E v \in IndustryOptions :
          /\ v # industry
          /\ industry' = v
          /\ Run3(company_name, v, input_data)
    /\ last_save' = "none"
    /\ UNCHANGED <<primVars, page, company_name, prefecture, input_data, has_diagnosed,
                   alert, sheet, edits>>

\* The CSV download button (financial_analysis3.py): the on_click callback
\* save_to_gsheet(save_data) runs with the save_data of the run that rendered
\* the button, then the script re-runs.
Download3 ==
    /\ page = "fa3" /\ Len(sheet) < MaxRows
    /\ \E outcome \in SaveOutcomes :
          /\ sheet' = save_to_gsheet(sheet, save_row3(report), outcome)
          /\ last_save' = outcome
          /\ alert' = IF save_raises(outcome) THEN "exception" ELSE alert
    /\ Run3(company_name, industry, input_data)
    /\ UNCHANGED <<primVars, page, company_name, industry, prefecture, input_data,
                   has_diagnosed, edits>>

\* The print button (financial_analysis3.py): the run evaluates the report,
\* then calls save_to_gsheet(save_data) inside try/except.
Print3 ==
    /\ page = "fa3" /\ Len(sheet) < MaxRows
    /\ Run3(company_name, industry, input_data)
    /\ \E outcome \in SaveOutcomes :
          /\ sheet' = save_to_gsheet(sheet, save_row3(report'), outcome)
          /\ last_save' = outcome
    /\ UNCHANGED <<primVars, page, company_name, industry, prefecture, input_data,
                   has_diagnosed, alert, edits>>

\* The sample button (financial_analysis4.py): every number input, the
\* default company name, industry and prefecture are set, then st.rerun().
SampleFill4 ==
    /\ page = "fa4"
    /\ input_data' = [curr |-> RawSampleCurr4, prev |-> RawSamplePrev4]
    /\ company_name' = SampleCompany
    /\ industry' = "manufacturing"
    /\ prefecture' = "Tokyo"
    /\ alert' = "none"
    /\ Run4(company_name', industry', prefecture', input_data', has_diagnosed)
    /\ last_save' = "none"
    /\ UNCHANGED <<primVars, page, has_diagnosed, sheet, edits>>

\* A number input is changed (financial_analysis4.py): the script re-runs.
Edit4 ==
    /\ page = "fa4" /\ edits < MaxEdits
    /\ \E ch \in EditChoices :
          /\ input_data[ch[1]][ch[2]] # ch[3]
          /\ input_data' = [input_data EXCEPT ![ch[1]][ch[2]] = ch[3]]
          /\ Run4(company_name, industry, prefecture, input_data', has_diagnosed)
    /\ edits' = edits + 1
    /\ alert' = "none"
    /\ last_save' = "none"
    /\ UNCHANGED <<primVars, page, company_name, industry, prefecture, has_diagnosed,
                   sheet>>

\* The company name is changed (financial_analysis4.py).
SetCompany4 ==
    /\ page = "fa4"
    /\ \E v \in CompanyNames :
          /\ v # company_name
          /\ company_name' = v
          /\ Run4(v, industry, prefecture, input_data, has_diagnosed)
    /\ alert' = "none"
    /\ last_save' = "none"
    /\ UNCHANGED <<primVars, page, industry, prefecture, input_data, has_diagnosed,
                   sheet, edits>>

\* An industry is chosen on the radio (financial_analysis4.py); a radio
\* cannot be cleared.
SetIndustry4 ==
    /\ page = "fa4"
    /\ \E v \in IndustryOptions :
          /\ v # industry
          /\ industry' = v
          /\ Run4(company_name, v, prefecture, input_data, has_diagnosed)
    /\ alert' = "none"
    /\ last_save' = "none"
    /\ UNCHANGED <<primVars, page, company_name, prefecture, input_data, has_diagnosed,
                   sheet, edits>>

\* A prefecture is chosen or cleared on the selectbox (financial_analysis4.py).
SetPrefecture4 ==
    /\ page = "fa4"
    /\ \E v \in PrefectureOptions \cup {NoChoice} :
          /\ v # prefecture
          /\ prefecture' = v
          /\ Run4(company_name, industry, v, input_data, has_diagnosed)
    /\ alert' = "none"
    /\ last_save' = "none"
    /\ UNCHANGED <<primVars, page, company_name, industry, input_data, has_diagnosed,
                   sheet, edits>>

\* A plausible slip: the prefecture check left out.
validation_error4_RegionOptional(company, ind, pref) ==
    IF company = "" THEN "company"
    ELSE IF ind = NoChoice THEN "industry"
    ELSE "none"

\* financial_analysis4.py lines 272-277: the st.error the diagnose handler
\* shows, "none" when every check passes.
validation_error4(company, ind, pref) ==
    IF company = "" THEN "company"
    ELSE IF ind = NoChoice THEN "industry"
    ELSE IF pref = NoChoice THEN "prefecture"
    ELSE "none"

\* The diagnose button (financial_analysis4.py lines 270-343).  A failed
\* check shows its error and the run goes on to the report section; otherwise
\* the row is evaluated and handed to save_to_gsheet, the flag is set and
\* st.rerun() starts the run that renders the report.
Diagnose4 ==
    /\ page = "fa4" /\ Len(sheet) < MaxRows
    /\ IF validation_error4(company_name, industry, prefecture) # "none"
       THEN /\ alert' = validation_error4(company_name, industry, prefecture)
            /\ Run4(company_name, industry, prefecture, input_data, has_diagnosed)
            /\ last_save' = "none"
            /\ UNCHANGED <<has_diagnosed, sheet>>
       ELSE \E outcome \in SaveOutcomes :
               /\ last_save' = outcome
               /\ sheet' = save_to_gsheet(sheet,
                               save_row4(company_name, industry, prefecture,
                                         create_inputs4(input_data.curr),
                                         create_inputs4(input_data.prev)),
                               outcome)
               /\ IF save_raises(outcome)
                  THEN \* the run stops at the call, before the flag is set
                       /\ alert' = "exception"
                       /\ Run4(company_name, industry, prefecture, input_data, FALSE)
                       /\ UNCHANGED has_diagnosed
                  ELSE /\ has_diagnosed' = TRUE
                       /\ alert' = "none"
                       /\ Run4(company_name, industry, prefecture, input_data, TRUE)
    /\ UNCHANGED <<primVars, page, company_name, industry, prefecture, input_data, edits>>

\* The re-diagnose button (financial_analysis4.py lines 519-522), which is on
\* the page only inside the report section.
ReDiagnose4 ==
    /\ page = "fa4" /\ report.shown
    /\ has_diagnosed' = FALSE
    /\ alert' = "none"
    /\ Run4(company_name, industry, prefecture, input_data, FALSE)
    /\ last_save' = "none"
    /\ UNCHANGED <<primVars, page, company_name, industry, prefecture, input_data,
                   sheet, edits>>

Next ==
    \/ Edit3 \/ SetCompany3 \/ SetIndustry3 \/ Download3 \/ Print3
    \/ SampleFill4 \/ Edit4 \/ SetCompany4 \/ SetIndustry4 \/ SetPrefecture4
    \/ Diagnose4 \/ ReDiagnose4

Spec == Init /\ [][Next]_vars

-----------------------------------------------------------------------------
(* The evaluation applied to a grid of input pairs *)

\* base with the fields of over replaced.
Merge(base, over) == [f \in DOMAIN base |-> IF f \in DOMAIN over THEN over[f] ELSE base[f]]

\* How many current-period line items differ from the sample at once.
MaxDeviations == 3

\* Current-period line items that differ from the sample: no sales, an
\* operating loss, no cost of goods, no employees, no fixed assets, a large
\* inventory, negative equity, a tax that uses up the sample's cash flow
\* (exactly so in financial_analysis3.py), another depreciation.
CurrDeviations ==
    [ sales |-> 0, sga |-> 40000, cogs |-> 0, employees |-> 0, fixed_assets |-> 0,
      inventory |-> 40000, net_assets |-> -5000, tax |-> 6500, depreciation |-> 5000 ]

CurrGrid ==
    { [f \in D |-> CurrDeviations[f]] :
        D \in {D \in SUBSET DOMAIN CurrDeviations : Cardinality(D) <= MaxDeviations} }

\* Prior-period line items: a zero or negative sales baseline, an operating loss.
PrevGrid ==
    { [f \in D |-> IF f = "sales" THEN v ELSE 30000] :
        D \in SUBSET {"sales", "sga"}, v \in {0, -90000} }

\* An evaluated session of financial_analysis3.py: the number inputs hold a
\* pair of the grid and the script has run.
InitEval3 ==
    /\ InitIdle
    /\ page = "fa3"
    /\ company_name = SampleCompany
    /\ industry = "manufacturing"
    /\ prefecture = NoChoice
    /\ \E oc \in CurrGrid, op \in PrevGrid :
          input_data = [curr |-> Merge(RawDefault3, oc), prev |-> Merge(RawDefault3, op)]
    /\ has_diagnosed = FALSE
    /\ alert = "none"
    /\ balance = [curr |-> balance_message(create_inputs3(input_data.curr)),
                  prev |-> balance_message(create_inputs3(input_data.prev))]
    /\ report = render_report3(company_name, industry,
                               create_inputs3(input_data.curr),
                               create_inputs3(input_data.prev))
    /\ sheet = <<>>
    /\ last_save = "none"
    /\ edits = 0

\* A session of financial_analysis4.py ready to be diagnosed: the form is
\* filled with a pair of the grid, or its number inputs are left at their
\* initial 0; nothing has been submitted.
InitEval4 ==
    /\ InitIdle
    /\ page = "fa4"
    /\ company_name = SampleCompany
    /\ industry = "manufacturing"
    /\ prefecture = "Tokyo"
    /\ \/ \E oc \in CurrGrid, op \in PrevGrid :
             input_data = [curr |-> Merge(RawSampleCurr4, oc),
                           prev |-> Merge(RawSamplePrev4, op)]
       \/ input_data = [curr |-> RawZero4, prev |-> RawZero4]
    /\ has_diagnosed = FALSE
    /\ alert = "none"
    /\ balance = [curr |-> balance_message(create_inputs4(input_data.curr)),
                  prev |-> balance_message(create_inputs4(input_data.prev))]
    /\ report = NoReport
    /\ sheet = <<>>
    /\ last_save = "none"
    /\ edits = 0

InitEval == InitEval3 \/ InitEval4

NextEval == Download3 \/ Print3 \/ Diagnose4 \/ ReDiagnose4

SpecEval == InitEval /\ [][NextEval]_vars

-----------------------------------------------------------------------------
(* Direct application of the helper functions to drawn arguments *)

\* Largest magnitude of the small integers drawn as arguments.
MaxArg == 2

IntArgs == (0 - MaxArg) .. MaxArg

\* Small rationals: a denominator such as cogs / 365 or sales / 12 is a float.
RatArgs == {Norm(a, b) : a \in IntArgs, b \in 1 .. MaxArg}

\* calc_growth is only ever called on ints; the sample page's sales figures
\* (financial_analysis3.py line 120, financial_analysis4.py lines 119 and 140)
\* are among the arguments.
GrowthArgs == {I(a) : a \in IntArgs \cup {-100, 50, 90000, 100000}}

\* The nine threshold tuples of the scored ratios, with their direction.
RatioThresholds ==
    { <<<<0, 2, 5, 10>>, FALSE>>,
      <<<<-1000, 0, 1000, 5000>>, FALSE>>,
      <<<<0, 3, 5, 10>>, FALSE>>,
      <<<<1, 3, 5, 10>>, FALSE>>,
      <<<<180, 90, 60, 30>>, TRUE>>,
      <<<<10000, 15000, 20000, 30000>>, FALSE>>,
      <<<<0, 500, 1000, 2000>>, FALSE>>,
      <<<<10, 20, 40, 60>>, FALSE>>,
      <<<<12, 6, 3, 1>>, TRUE>> }

\* Arbitrary (also unordered) small threshold tuples, in both directions.
SmallThresholds == {<<t, b>> : t \in [1 .. 4 -> 0 .. MaxArg], b \in BOOLEAN}

\* Values around every threshold of a tuple, the undefined value included.
ValsFor(t) ==
    {None} \cup {I(t[i] + k) : i \in 1 .. 4, k \in {-1, 0, 1}}
           \cup {Norm(2 * t[i] + 1, 2) : i \in 1 .. 4}

NoArgs == [a |-> None, b |-> None, t |-> <<0, 0, 0, 0>>, lib |-> FALSE]

SafeDivArgs == {[NoArgs EXCEPT !.a = n, !.b = d] : n \in RatArgs, d \in RatArgs}

GrowthCallArgs == {[NoArgs EXCEPT !.a = c, !.b = p] : c \in GrowthArgs, p \in GrowthArgs}

ScoreArgs ==
    UNION { {[a |-> v, b |-> w, t |-> tb[1], lib |-> tb[2]] :
                v \in ValsFor(tb[1]), w \in ValsFor(tb[1])} :
            tb \in RatioThresholds \cup SmallThresholds }

InitPrim ==
    /\ page = "fa4"
    /\ company_name = ""
    /\ industry = NoChoice
    /\ prefecture = NoChoice
    /\ input_data = [curr |-> RawZero4, prev |-> RawZero4]
    /\ has_diagnosed = FALSE
    /\ alert = "none"
    /\ balance = [curr |-> balance_message(create_inputs4(RawZero4)),
                  prev |-> balance_message(create_inputs4(RawZero4))]
    /\ report = NoReport
    /\ sheet = <<>>
    /\ last_save = "none"
    /\ edits = 0
    /\ result = <<>>
    /\ \/ fn = "safe_div" /\ args \in SafeDivArgs
       \/ fn = "calc_growth" /\ args \in GrowthCallArgs
       \/ fn = "calc_score" /\ args \in ScoreArgs

ApplySafeDiv ==
    /\ fn = "safe_div" /\ result = <<>>
    /\ result' = <<safe_div(args.a, args.b)>>
    /\ UNCHANGED <<fn, args, sessionVars>>

ApplyCalcGrowth ==
    /\ fn = "calc_growth" /\ result = <<>>
    /\ result' = <<calc_growth(args.a, args.b)>>
    /\ UNCHANGED <<fn, args, sessionVars>>

\* calc_score applied to two values under the same thresholds.
ApplyCalcScore ==
    /\ fn = "calc_score" /\ result = <<>>
    /\ result' = << calc_score(args.a, args.t[1], args.t[2], args.t[3], args.t[4], args.lib),
                    calc_score(args.b, args.t[1], args.t[2], args.t[3], args.t[4], args.lib) >>
    /\ UNCHANGED <<fn, args, sessionVars>>

NextPrim == ApplySafeDiv \/ ApplyCalcGrowth \/ ApplyCalcScore

SpecPrim == InitPrim /\ [][NextPrim]_vars

-----------------------------------------------------------------------------
(* The free-cash-flow line in binary64.  c['op_profit'] * 0.6 is a float,  *)
(* so the line is evaluated in IEEE 754 double precision with a rounding   *)
(* (to nearest, ties to even) after each of its three float operations.    *)
(* A float is a pair <<neg, mag>>: the sign and the magnitude in units of  *)
(* 2^-53, a natural number written in base 4096 as a sequence of limbs,    *)
(* least significant first, with no leading zero limb; zero is             *)
(* <<FALSE, <<>>>>.  Every float of this section is 0 or at least 0.5 in    *)
(* magnitude before the last subtraction, hence a multiple of 2^-53, and   *)
(* is below 2^23 in magnitude.                                             *)

\* Bits of a limb and the base of the limbs.
LimbBits == 12

Base == 4096

\* Fraction bits of the unit, and significant bits of a binary64.
FracBits == 53

Precision == 53

RECURSIVE nat_of(_)
\* The limbs of a natural number.
nat_of(n) == IF n = 0 THEN <<>> ELSE <<n % Base>> \o nat_of(n \div Base)

RECURSIVE nat_value(_)
\* The natural number of a short limb sequence.
nat_value(x) == IF x = <<>> THEN 0 ELSE x[1] + Base * nat_value(Tail(x))

RECURSIVE nat_trim(_)
\* Drops the leading zero limbs (at the end of the sequence).
nat_trim(x) ==
    IF x = <<>> THEN <<>>
    ELSE IF x[Len(x)] = 0 THEN nat_trim(SubSeq(x, 1, Len(x) - 1))
    ELSE x

nat_rest(x) == IF x = <<>> THEN <<>> ELSE Tail(x)

nat_low(x) == IF x = <<>> THEN 0 ELSE x[1]

RECURSIVE nat_add_carry(_, _, _)
nat_add_carry(x, y, carry) ==
    IF x = <<>> /\ y = <<>> THEN (IF carry = 0 THEN <<>> ELSE <<carry>>)
    ELSE LET s == nat_low(x) + nat_low(y) + carry
         IN  <<s % Base>> \o nat_add_carry(nat_rest(x), nat_rest(y), s \div Base)

nat_add(x, y) == nat_add_carry(x, y, 0)

RECURSIVE nat_sub_borrow(_, _, _)
nat_sub_borrow(x, y, borrow) ==
    IF x = <<>> THEN <<>>
    ELSE LET d == nat_low(x) - nat_low(y) - borrow
         IN  <<IF d < 0 THEN d + Base ELSE d>>
                 \o nat_sub_borrow(Tail(x), nat_rest(y), IF d < 0 THEN 1 ELSE 0)

\* x - y for x >= y.
nat_sub(x, y) == nat_trim(nat_sub_borrow(x, y, 0))

RECURSIVE nat_cmp_same_len(_, _)
nat_cmp_same_len(x, y) ==
    IF x = <<>> THEN 0
    ELSE IF x[Len(x)] # y[Len(y)] THEN (IF x[Len(x)] < y[Len(y)] THEN -1 ELSE 1)
    ELSE nat_cmp_same_len(SubSeq(x, 1, Len(x) - 1), SubSeq(y, 1, Len(y) - 1))

\* -1, 0 or 1 as x < y, x = y or x > y (both without leading zero limbs).
nat_cmp(x, y) ==
    IF Len(x) # Len(y) THEN (IF Len(x) < Len(y) THEN -1 ELSE 1)
    ELSE nat_cmp_same_len(x, y)

RECURSIVE nat_scale(_, _, _)
\* x * d + carry for one limb d.
nat_scale(x, d, carry) ==
    IF x = <<>> THEN (IF carry = 0 THEN <<>> ELSE <<carry>>)
    ELSE LET t == x[1] * d + carry
         IN  <<t % Base>> \o nat_scale(Tail(x), d, t \div Base)

RECURSIVE nat_mul(_, _)
nat_mul(x, y) ==
    IF y = <<>> \/ x = <<>> THEN <<>>
    ELSE LET rest == nat_mul(x, Tail(y))
         IN  nat_trim(nat_add(nat_scale(x, y[1], 0),
                              IF rest = <<>> THEN <<>> ELSE <<0>> \o rest))

RECURSIVE bit_length(_)
bit_length(n) == IF n = 0 THEN 0 ELSE 1 + bit_length(n \div 2)

nat_bit_length(x) ==
    IF x = <<>> THEN 0 ELSE LimbBits * (Len(x) - 1) + bit_length(x[Len(x)])

\* Rounding of an exact magnitude to Precision significant bits, to nearest,
\* ties to even.  At most 23 bits are dropped (the magnitude is below 2^23),
\* all of them in the two lowest limbs.
round_binary64(x) ==
    IF nat_bit_length(x) <= Precision THEN x
    ELSE LET k       == nat_bit_length(x) - Precision
             quantum == 2 ^ k
             low2    == x[1] + Base * x[2]
             low     == low2 % quantum
             half    == quantum \div 2
             odd     == (low2 \div quantum) % 2 = 1
             floor   == nat_sub(x, nat_of(low))
             up      == low > half \/ (low = half /\ odd)
         IN  IF up THEN nat_add(floor, nat_of(quantum)) ELSE floor

\* 2^53 in limbs: 53 = 4 * 12 + 5.
unit_magnitude == <<0, 0, 0, 0, 32>>

\* int -> float, exact below 2^53.
float_of_int(n) == <<n < 0, nat_mul(nat_of(Abs(n)), unit_magnitude)>>

\* The exact signed sum of two fixed-point numbers.
exact_add(a, b) ==
    IF a[1] = b[1] THEN <<a[1], nat_add(a[2], b[2])>>
    ELSE LET cmp == nat_cmp(a[2], b[2])
         IN  IF cmp = 0 THEN <<FALSE, <<>>>>
             ELSE IF cmp = 1 THEN <<a[1], nat_sub(a[2], b[2])>>
             ELSE <<b[1], nat_sub(b[2], a[2])>>

float_neg(a) == IF a[2] = <<>> THEN a ELSE <<~a[1], a[2]>>

\* float + float and float - float: the exact result, rounded.
float_add(a, b) == LET s == exact_add(a, b) IN <<s[1], round_binary64(s[2])>>

float_sub(a, b) == float_add(a, float_neg(b))

\* The literal 0.6: the binary64 0x1.3333333333333p-1, that is
\* 0x13333333333333 / 2^53, in limbs of three hexadecimal digits (0x333 = 819,
\* 0x13 = 19).
literal_0_6 == <<819, 819, 819, 819, 19>>

\* int * 0.6: the int converts exactly, the product is rounded once.
int_times_0_6(n) ==
    IF n = 0 THEN <<FALSE, <<>>>>
    ELSE <<n < 0, round_binary64(nat_mul(literal_0_6, nat_of(Abs(n))))>>

\* float >= int.
float_ge_int(a, t) ==
    LET d == exact_add(a, float_neg(float_of_int(t)))
    IN  ~d[1]

\* int(float): truncation toward zero.
int_of_float(a) ==
    LET m == IF Len(a[2]) <= 4 THEN 0
             ELSE nat_value(SubSeq(a[2], 5, Len(a[2]))) \div 32
    IN  IF a[1] THEN 0 - m ELSE m

\* A plausible slip: the investment term without the depreciation it adds back.
c_fcf_binary64_DepreciationOnce(c, p) ==
    float_sub(float_add(int_times_0_6(c.op_profit), float_of_int(c.depreciation)),
              float_of_int(c.fixed_assets - p.fixed_assets))

\* c_fcf = (c['op_profit'] * 0.6 + c['depreciation'])
\*         - ((c['fixed_assets'] - p['fixed_assets']) + c['depreciation'])
c_fcf_binary64(c, p) ==
    float_sub(float_add(int_times_0_6(c.op_profit), float_of_int(c.depreciation)),
              float_of_int((c.fixed_assets - p.fixed_assets) + c.depreciation))

\* calc_score on a float with lower_is_better = False.
calc_score_binary64(val, t1, t2, t3, t4) ==
    IF float_ge_int(val, t4) THEN 5
    ELSE IF float_ge_int(val, t3) THEN 4
    ELSE IF float_ge_int(val, t2) THEN 3
    ELSE IF float_ge_int(val, t1) THEN 2
    ELSE 1

\* What the script derives from the free cash flow of a pair: the value, its
\* score, the profitability composite and the digits shown by fmt_yen.
free_cash_flow_outputs(c, p) ==
    LET c_fcf       == c_fcf_binary64(c, p)
        c_op_margin == PyMul(safe_div(I(c.op_profit), I(c.sales)), I(100))
        score       == calc_score_binary64(c_fcf, -1000, 0, 1000, 5000)
    IN  [ c_fcf |-> c_fcf,
          score |-> score,
          profitability |->
              PyDiv(PyAdd(calc_score(c_op_margin, 0, 2, 5, 10, FALSE), I(score)), I(2)),
          shown |-> int_of_float(c_fcf) ]

\* Largest offset of the drawn operating profits from their base values.
MaxOffset == 3

OpProfitBases == {0, 5000, -10000}

OpProfits == {b + k : b \in OpProfitBases, k \in (0 - MaxOffset) .. MaxOffset}

\* Current fixed assets against a prior 20000: an investment that puts the
\* free cash flow of an operating profit of 5000 on each threshold of its score.
FixedAssetsCurr == {0, 18000, 20000, 22000, 23000, 24000}

Depreciations == {0, 2000, 5000, 123457}

FcfArgs ==
    { [ c |-> [op_profit |-> o, sales |-> s, depreciation |-> d, fixed_assets |-> f],
        p |-> [fixed_assets |-> 20000] ] :
      o \in OpProfits, s \in {0, 100000}, d \in Depreciations, f \in FixedAssetsCurr }

InitFcf ==
    /\ page = "fa3"
    /\ company_name = SampleCompany
    /\ industry = "manufacturing"
    /\ prefecture = NoChoice
    /\ input_data = [curr |-> RawDefault3, prev |-> RawDefault3]
    /\ has_diagnosed = FALSE
    /\ alert = "none"
    /\ balance = [curr |-> balance_message(create_inputs3(RawDefault3)),
                  prev |-> balance_message(create_inputs3(RawDefault3))]
    /\ report = NoReport
    /\ sheet = <<>>
    /\ last_save = "none"
    /\ edits = 0
    /\ result = <<>>
    /\ fn = "c_fcf"
    /\ args \in FcfArgs

ApplyFcf ==
    /\ fn = "c_fcf" /\ result = <<>>
    /\ result' = <<free_cash_flow_outputs(args.c, args.p)>>
    /\ UNCHANGED <<fn, args, sessionVars>>

NextFcf == ApplyFcf

SpecFcf == InitFcf /\ [][NextFcf]_vars

-----------------------------------------------------------------------------
(* Properties of the helper functions, under SpecPrim *)

Applied(f) == fn = f /\ result # <<>>

\* C1: safe_div(n, d) is 0 for every n when d == 0, is the number q with
\* q * d = n (that is, n / d) for every d # 0, and never raises, for negative
\* arguments too.
C1_SafeDivTotal ==
    Applied("safe_div") =>
        /\ IsNum(result[1])
        /\ args.b = Zero => result[1] = Zero
        /\ args.b # Zero => PyMul(result[1], args.b) = args.a

\* safe_div has been applied to a negative numerator and a zero denominator.
C1_Witness ==
    /\ Applied("safe_div")
    /\ args.b = Zero /\ NumLt(args.a, Zero)
    /\ result[1] = Zero

\* C2: calc_growth(current, previous) is None for every previous <= 0 (zero
\* included) whatever current is, and for previous > 0 it is the number
\* (current - previous) * 100 / previous; 100000 against 90000 gives about
\* 11.11, and a negative current gives a negative, defined growth.
C2_GrowthContract ==
    Applied("calc_growth") =>
        /\ NumLe(args.b, Zero) => result[1] = None
        /\ NumGt(args.b, Zero) =>
              /\ IsNum(result[1])
              /\ result[1] = Norm((args.a[2] - args.b[2]) * 100, args.b[2])
              /\ NumLt(args.a, Zero) => NumLt(result[1], Zero)
        /\ (args.a = I(100000) /\ args.b = I(90000)) =>
              /\ NumGt(result[1], Norm(1111, 100))
              /\ NumLt(result[1], Norm(1112, 100))

\* calc_growth has been applied to a zero baseline and a positive current.
C2_Witness ==
    /\ Applied("calc_growth")
    /\ args.b = Zero /\ NumGt(args.a, Zero)
    /\ result[1] = None

\* The tier the contract gives a defined value v: the highest tier whose
\* threshold v passes.
TierOf(v, t, lib) ==
    LET pass(k) == IF lib THEN NumLe(v, I(t[k])) ELSE NumGe(v, I(t[k]))
    IN  IF pass(4) THEN 5
        ELSE IF pass(3) THEN 4
        ELSE IF pass(2) THEN 3
        ELSE IF pass(1) THEN 2
        ELSE 1

\* C3: calc_score always returns an integer in 1..5: 1 for the undefined
\* value, otherwise the tier of the contract (>= for higher-is-better, <= for
\* lower-is-better); a value equal to threshold t_k scores at least k + 1, and
\* 5 under 0, 2, 5, 10 (higher is better) scores 4.
C3_ScoreContract ==
    Applied("calc_score") =>
        /\ result[1] \in {I(k) : k \in 1 .. 5}
        /\ args.a = None => result[1] = I(1)
        /\ IsNum(args.a) => result[1] = I(TierOf(args.a, args.t, args.lib))
        /\ \A k \in 1 .. 4 : args.a = I(args.t[k]) => result[1][2] >= k + 1
        /\ (args.a = I(5) /\ args.t = <<0, 2, 5, 10>> /\ ~args.lib) => result[1] = I(4)

\* calc_score has been applied to the value 5 under 0, 2, 5, 10.
C3_Witness ==
    /\ Applied("calc_score")
    /\ args.a = I(5) /\ args.t = <<0, 2, 5, 10>> /\ ~args.lib
    /\ result[1] = I(4)

\* C4: under any fixed thresholds calc_score is monotonic in a defined value:
\* v1 <= v2 gives score(v1) <= score(v2) when higher is better and
\* score(v1) >= score(v2) when lower is better; the nine threshold tuples of
\* the scored ratios are among the thresholds.
C4_ScoreMonotonic ==
    (Applied("calc_score") /\ IsNum(args.a) /\ IsNum(args.b) /\ NumLe(args.a, args.b)) =>
        /\ ~args.lib => result[1][2] <= result[2][2]
        /\ args.lib => result[1][2] >= result[2][2]

\* calc_score has been applied to two inventory-days values in different tiers.
C4_Witness ==
    /\ Applied("calc_score")
    /\ args.t = <<180, 90, 60, 30>> /\ args.lib
    /\ IsNum(args.a) /\ IsNum(args.b) /\ NumLt(args.a, args.b)
    /\ result[1] = I(5) /\ result[2] = I(1)

-----------------------------------------------------------------------------
(* Properties of the evaluation, under SpecEval *)

\* The score the contract gives a value that may be undefined.
ScoreOf(v, t, lib) == IF v = None THEN 1 ELSE TierOf(v, t, lib)

\* The operating-profit-growth sub-score that entered the growth composite:
\* twice the composite less the sales-growth score.
OpGrowthTerm(rep) == PySub(PyMul(rep.scores.growth, I(2)), rep.score_sales_growth)

\* C5: whenever prior op_profit <= 0 and current op_profit > 0 the
\* operating-profit-growth sub-score entering the growth composite is exactly
\* 5; in every other case it is the score of the op-profit growth under
\* 0, 3, 5, 10, so prior op_profit <= 0 with current op_profit <= 0 gives 1.
C5_TurnaroundOverride ==
    report.shown =>
        /\ OpGrowthTerm(report) = report.score_op_growth
        /\ (report.p.op_profit <= 0 /\ report.c.op_profit > 0) =>
              report.score_op_growth = I(5)
        /\ ~(report.p.op_profit <= 0 /\ report.c.op_profit > 0) =>
              report.score_op_growth =
                  I(ScoreOf(report.ratios.c_op_growth, <<0, 3, 5, 10>>, FALSE))
        /\ (report.p.op_profit <= 0 /\ report.c.op_profit <= 0) =>
              report.score_op_growth = I(1)

\* A report of a turnaround: the growth value is undefined and the term is 5.
C5_Witness ==
    /\ report.shown
    /\ report.p.op_profit <= 0 /\ report.c.op_profit > 0
    /\ report.ratios.c_op_growth = None
    /\ OpGrowthTerm(report) = I(5)

InRange1to5(v) == IsNum(v) /\ NumGe(v, I(1)) /\ NumLe(v, I(5))

\* C6: for every input pair (any sign, any zeros) each of the five category
\* composites lies in [1, 5] and the overall score, the sum of the five
\* composites divided by 5, lies in [1, 5]; so does the overall score of
\* every row handed to the spreadsheet.
C6_ScoresInRange ==
    /\ report.shown =>
          /\ \A i \in 1 .. 5 : InRange1to5(report.scores[Categories[i]])
          /\ InRange1to5(report.avg_score)
          /\ PyMul(report.avg_score, I(5)) =
                 PyAdd(PyAdd(PyAdd(PyAdd(report.scores.profitability, report.scores.growth),
                                   report.scores.efficiency),
                             report.scores.productivity), report.scores.safety)
    /\ \A i \in 1 .. Len(sheet) :
          InRange1to5(IF page = "fa3" THEN sheet[i][6] ELSE sheet[i][5])

\* A report on a pair with zero sales, no employees and negative equity.
C6_Witness ==
    /\ report.shown
    /\ report.c.sales = 0 /\ report.c.employees = 0 /\ report.c.net_assets < 0
    /\ InRange1to5(report.avg_score)

\* The mean of two integer scores.
MeanOf(a, b) == Norm(a + b, 2)

\* C7: each category composite is the mean of exactly two ratio scores under
\* fixed thresholds: operating margin (0,2,5,10) and free cash flow
\* (-1000,0,1000,5000); sales growth and op-profit growth (0,3,5,10, with the
\* turnaround override); fixed-asset turnover (1,3,5,10) and inventory days
\* (180,90,60,30, lower is better); sales per employee
\* (10000,15000,20000,30000) and op profit per employee (0,500,1000,2000);
\* equity ratio (10,20,40,60) and loan-to-monthly-sales (12,6,3,1, lower is
\* better).  Working capital, current ratio and debt-repayment years enter
\* no score.
C7_CompositeDefinition ==
    report.shown =>
        LET r == report.ratios
            turnaround == report.p.op_profit <= 0 /\ report.c.op_profit > 0
        IN  /\ report.scores.profitability =
                  MeanOf(ScoreOf(r.c_op_margin, <<0, 2, 5, 10>>, FALSE),
                         ScoreOf(r.c_fcf, <<-1000, 0, 1000, 5000>>, FALSE))
            /\ report.scores.growth =
                  MeanOf(ScoreOf(r.c_sales_growth, <<0, 3, 5, 10>>, FALSE),
                         IF turnaround THEN 5
                         ELSE ScoreOf(r.c_op_growth, <<0, 3, 5, 10>>, FALSE))
            /\ report.scores.efficiency =
                  MeanOf(ScoreOf(r.c_fixed_turn, <<1, 3, 5, 10>>, FALSE),
                         ScoreOf(r.c_inv_days, <<180, 90, 60, 30>>, TRUE))
            /\ report.scores.productivity =
                  MeanOf(ScoreOf(r.c_sales_per_emp, <<10000, 15000, 20000, 30000>>, FALSE),
                         ScoreOf(r.c_op_per_emp, <<0, 500, 1000, 2000>>, FALSE))
            /\ report.scores.safety =
                  MeanOf(ScoreOf(r.c_equity_ratio, <<10, 20, 40, 60>>, FALSE),
                         ScoreOf(r.c_loan_sales_ratio, <<12, 6, 3, 1>>, TRUE))

\* A report whose inventory days exceed 180 (scored 1, lower is better)
\* while its fixed-asset turnover scores 4.
C7_Witness ==
    /\ report.shown
    /\ NumGt(report.ratios.c_inv_days, I(180))
    /\ report.ratios.c_fixed_turn = I(5)
    /\ report.scores.efficiency = Norm(5, 2)

\* Nothing in the report is the trace of a raised exception.
NoFailure(rep) ==
    /\ \A f \in DOMAIN rep.ratios : rep.ratios[f] # Raised
    /\ \A i \in 1 .. 5 : rep.scores[Categories[i]] # Raised
    /\ rep.avg_score # Raised
    /\ rep.score_sales_growth # Raised /\ rep.score_op_growth # Raised
    /\ \A i \in 1 .. Len(rep.kpis) :
          /\ rep.kpis[i].curr_disp # StrRaised
          /\ rep.kpis[i].prev_disp # StrRaised
          /\ rep.kpis[i].delta # StrRaised

\* C8: undefined growth is propagated, never raised.  When prior sales <= 0
\* the sales-growth KPI is undefined, scores 1 and is displayed as "-"; when
\* prior op_profit <= 0 the op-profit-growth KPI is undefined, is displayed as
\* "-" and scores 1 unless the turnaround override applies; the evaluation
\* does not fail.
C8_UndefinedGrowthPropagated ==
    report.shown =>
        /\ Len(report.kpis) = 13
        /\ report.kpis[3].name = "sales_growth" /\ report.kpis[4].name = "op_growth"
        /\ NoFailure(report)
        /\ report.p.sales <= 0 =>
              /\ report.kpis[3].curr_v = None
              /\ report.score_sales_growth = I(1)
              /\ report.kpis[3].curr_disp = <<"-">>
        /\ report.p.op_profit <= 0 =>
              /\ report.kpis[4].curr_v = None
              /\ report.kpis[4].curr_disp = <<"-">>
              /\ report.score_op_growth = IF report.c.op_profit > 0 THEN I(5) ELSE I(1)

\* A report on a pair whose prior sales are zero and whose operating profit is
\* negative in both periods.
C8_Witness ==
    /\ report.shown
    /\ report.p.sales = 0 /\ report.p.op_profit < 0 /\ report.c.op_profit < 0
    /\ report.kpis[3].curr_disp = <<"-">> /\ report.kpis[4].curr_disp = <<"-">>
    /\ report.scores.growth = I(1)

\* C9: free cash flow, sales growth and operating-profit growth render their
\* prior string and their delta string as "-", never as a number; and every
\* KPI renders its delta as "-" whenever its current or prior value is
\* undefined.
C9_NoBaselinePlaceholder ==
    report.shown =>
        /\ Len(report.kpis) = 13
        /\ \A i \in 1 .. 13 :
              /\ report.kpis[i].name \in {"fcf", "sales_growth", "op_growth"} =>
                    /\ report.kpis[i].prev_disp = <<"-">>
                    /\ report.kpis[i].delta = <<"-">>
              /\ (report.kpis[i].curr_v = None \/ report.kpis[i].prev_v = None) =>
                    report.kpis[i].delta = <<"-">>
        /\ {report.kpis[i].name : i \in 2 .. 4} = {"fcf", "sales_growth", "op_growth"}

\* A report whose free cash flow and both growth rates are defined numbers.
C9_Witness ==
    /\ report.shown
    /\ IsNum(report.kpis[2].curr_v) /\ report.kpis[2].curr_v # Zero
    /\ IsNum(report.kpis[3].curr_v) /\ IsNum(report.kpis[4].curr_v)
    /\ report.kpis[2].delta = <<"-">> /\ report.kpis[2].prev_disp = <<"-">>

\* The rule of section 4.4 for a unit, applied to a defined value: currency
\* as a grouped integer with the unit suffix, percentage as one decimal and
\* "%", turnover and multiple as two decimals, years and days as one decimal.
UnitRule(unit, v) ==
    IF unit = UNIT_YEN THEN FormatGrouped(PyInt(v)) \o <<" ", CH_SEN, CH_EN>>
    ELSE IF unit = UNIT_PCT THEN FormatFixed(v, 1) \o <<"%">>
    ELSE IF unit = UNIT_KAI THEN FormatFixed(v, 2) \o <<CH_KAI>>
    ELSE IF unit = UNIT_BAI THEN FormatFixed(v, 2) \o <<CH_BAI>>
    ELSE IF unit = UNIT_NEN THEN FormatFixed(v, 1) \o <<CH_NEN>>
    ELSE FormatFixed(v, 1) \o <<CH_NICHI>>

BothDefined(k) == IsNum(k.curr_v) /\ IsNum(k.prev_v)

\* C10 as stated: for every KPI whose current and prior values are both
\* defined, the delta string is (current - prior) formatted with the same
\* unit rule as the KPI's own values.
C10_DeltaUsesUnitRule ==
    report.shown =>
        \A i \in 1 .. Len(report.kpis) :
            LET k == report.kpis[i]
            IN  BothDefined(k) =>
                  /\ k.curr_disp = UnitRule(k.unit, k.curr_v)
                  /\ k.delta = UnitRule(k.unit, PySub(k.curr_v, k.prev_v))

Digits == {"0", "1", "2", "3", "4", "5", "6", "7", "8", "9"}

\* C10 amended: for every KPI whose current and prior values are both
\* defined, the delta string is (current - prior) formatted by the KPI's unit
\* rule only for currency; for every other unit it is the bare number with
\* one decimal and no unit suffix.
C10_DeltaFormat ==
    report.shown =>
        \A i \in 1 .. Len(report.kpis) :
            LET k == report.kpis[i]
                d == k.delta
            IN  BothDefined(k) =>
                  /\ k.curr_disp = UnitRule(k.unit, k.curr_v)
                  /\ k.prev_disp = UnitRule(k.unit, k.prev_v)
                  /\ k.unit = UNIT_YEN =>
                        d = UnitRule(UNIT_YEN, PySub(k.curr_v, k.prev_v))
                  /\ k.unit # UNIT_YEN =>
                        /\ d = FormatFixed(PySub(k.curr_v, k.prev_v), 1)
                        /\ Len(d) >= 3
                        /\ d[Len(d)] \in Digits /\ d[Len(d) - 1] = "."

\* A report whose loan-to-monthly-sales multiple is shown with two decimals
\* and whose delta is a non-zero number.
C10_Witness ==
    /\ report.shown
    /\ report.kpis[13].unit = UNIT_BAI /\ BothDefined(report.kpis[13])
    /\ report.kpis[13].curr_v # report.kpis[13].prev_v
    /\ report.kpis[13].curr_disp[Len(report.kpis[13].curr_disp)] = CH_BAI
    /\ report.kpis[13].delta \notin {<<"-">>, <<"0", ".", "0">>}

-----------------------------------------------------------------------------
(* Properties of the pages *)

\* The report financial_analysis4.py renders for the widget values of a state.
ReportOfInputs4 ==
    render_report4(company_name, industry, prefecture,
                   create_inputs4(input_data.curr), create_inputs4(input_data.prev))

\* The report financial_analysis3.py renders for the widget values of a state.
ReportOfInputs3 ==
    render_report3(company_name, industry,
                   create_inputs3(input_data.curr), create_inputs3(input_data.prev))

\* C11: a failure of the logging collaborator never blocks or alters the
\* report.  A validated diagnose in financial_analysis4.py sets has_diagnosed
\* and renders the report of the inputs, with no exception on the page,
\* whichever way save_to_gsheet ended; in financial_analysis3.py the download
\* and print buttons leave the report and its export as they were.
C11_SaveFailureIsolated ==
    [][ /\ alert' # "exception"
        /\ (page = "fa4" /\ ~has_diagnosed
            /\ validation_error4(company_name, industry, prefecture) = "none") =>
              /\ has_diagnosed'
              /\ report' = ReportOfInputs4
        /\ page = "fa3" => report' = report /\ report'.shown ]_vars

\* A diagnosed session whose save failed: the report is on the page and the
\* sheet has no row.
C11_Witness ==
    /\ page = "fa4" /\ has_diagnosed /\ sheet = <<>> /\ last_save = "exception"
    /\ report.shown /\ report = ReportOfInputs4
    /\ alert = "none"

\* C12: the KPI engine is only ever evaluated on validated input: in every
\* reachable state in which the report is rendered the company name is
\* non-empty and an industry is selected.
C12_EvaluatedOnlyOnValidated ==
    report.shown =>
        /\ company_name # "" /\ report.company_name # ""
        /\ industry # NoChoice /\ report.industry # NoChoice

\* The errors with which the diagnose handler rejects a request.
ValidationErrors == {"company", "industry", "prefecture"}

\* C13 as stated: region is optional: a diagnose request whose company name
\* is non-empty and whose industry is selected is accepted, never rejected,
\* even when no prefecture has been chosen.
C13_RegionOptional ==
    (page = "fa4" /\ company_name # "" /\ industry # NoChoice) =>
        alert \notin ValidationErrors

\* C13 amended: the prefecture is required.  A diagnose request with a company
\* name and an industry but no prefecture is rejected with the prefecture
\* error: the flag, the sheet and the report stay as they were; the flag is
\* set and a row is logged only by a request that also has a prefecture.
C13_RegionRequired ==
    [][ page = "fa4" =>
          /\ alert' = "prefecture" =>
                /\ company_name # "" /\ industry # NoChoice /\ prefecture = NoChoice
                /\ UNCHANGED <<has_diagnosed, sheet, report>>
          /\ ((~has_diagnosed /\ has_diagnosed') \/ sheet' # sheet) =>
                /\ company_name # "" /\ industry # NoChoice /\ prefecture # NoChoice
                /\ alert' = "none" ]_vars

\* A request with a company name and an industry but no prefecture has been
\* rejected: no report, no row.
C13_Witness ==
    /\ page = "fa4" /\ alert = "prefecture"
    /\ company_name # "" /\ industry # NoChoice /\ prefecture = NoChoice
    /\ ~has_diagnosed /\ ~report.shown /\ sheet = <<>>

\* Total assets and total liabilities and equity of entered line items.
TotalAssetsOf(raw) ==
    raw.cash + raw.receivables + raw.inventory + raw.other_ca + raw.fixed_assets

TotalLiabEquityOf(raw) ==
    raw.payables + raw.short_loan + raw.other_cl + raw.long_loan + raw.net_assets

\* The record of a period carries the entered line items unchanged and the
\* subtotals they define.
RecordFollowsLineItems(d, raw) ==
    /\ \A f \in DOMAIN raw : d[f] = raw[f]
    /\ d.gross_profit = raw.sales - raw.cogs
    /\ d.op_profit = raw.sales - raw.cogs - raw.sga
    /\ d.ord_profit = d.op_profit + raw.non_op_inc - raw.non_op_exp
    /\ d.current_assets = raw.cash + raw.receivables + raw.inventory + raw.other_ca
    /\ d.total_assets = TotalAssetsOf(raw)
    /\ d.current_liab = raw.payables + raw.short_loan + raw.other_cl
    /\ d.fixed_liab = raw.long_loan
    /\ d.total_liab_equity = TotalLiabEquityOf(raw)

\* C14: balance mismatch is a non-blocking warning.  For each period the
\* mismatch warning is shown exactly when total_assets - total_liab_equity is
\* not 0 and the match message otherwise; the record is built all the same,
\* and the subtotals, ratios and scores of the report are those of the line
\* items as entered.
C14_BalanceWarningOnly ==
    /\ \A per \in {"curr", "prev"} :
          /\ balance[per][1] =
                IF TotalAssetsOf(input_data[per]) - TotalLiabEquityOf(input_data[per]) # 0
                THEN "error" ELSE "success"
          /\ balance[per][2] # StrRaised
    /\ report.shown =>
          /\ RecordFollowsLineItems(report.c, input_data.curr)
          /\ RecordFollowsLineItems(report.p, input_data.prev)
          /\ report = (IF page = "fa3" THEN ReportOfInputs3 ELSE ReportOfInputs4)
          /\ NoFailure(report)

\* A report on a current period whose assets fall short of liabilities and
\* equity while the prior period balances.
C14_Witness ==
    /\ report.shown
    /\ TotalAssetsOf(input_data.curr) < TotalLiabEquityOf(input_data.curr)
    /\ balance.curr[1] = "error" /\ balance.prev[1] = "success"
    /\ InRange1to5(report.avg_score)

\* The quotient n / d, 0 when d = 0.
Quot(n, d) == IF d = 0 THEN Zero ELSE Norm(n, d)

\* The single-period ratios of a record d, as the values m (operating
\* margin), ft (fixed-asset turnover), id (inventory days), spe and ope (sales
\* and operating profit per employee), er (equity ratio), lsr (loans to monthly
\* sales), cr (current ratio) and wc (working capital).
PeriodRatios(d, m, ft, id, spe, ope, er, lsr, cr, wc) ==
    /\ d.op_profit = d.sales - d.cogs - d.sga
    /\ m = Quot(d.op_profit * 100, d.sales)
    /\ ft = Quot(d.sales, d.fixed_assets)
    /\ id = Quot(d.inventory * 365, d.cogs)
    /\ spe = Quot(d.sales, d.employees)
    /\ ope = Quot(d.op_profit, d.employees)
    /\ er = Quot(d.net_assets * 100, d.total_assets)
    /\ lsr = Quot((d.short_loan + d.long_loan) * 12, d.sales)
    /\ cr = Quot(d.current_assets * 100, d.current_liab)
    /\ wc = I(d.current_assets - d.current_liab)

\* The ratios of both periods follow the same formulas on their own fields.
RatioFormulas ==
    LET r == report.ratios
    IN  /\ PeriodRatios(report.c, r.c_op_margin, r.c_fixed_turn, r.c_inv_days,
                        r.c_sales_per_emp, r.c_op_per_emp, r.c_equity_ratio,
                        r.c_loan_sales_ratio, r.c_current_ratio, r.c_working_capital)
        /\ PeriodRatios(report.p, r.p_op_margin, r.p_fixed_turn, r.p_inv_days,
                        r.p_sales_per_emp, r.p_op_per_emp, r.p_equity_ratio,
                        r.p_loan_sales_ratio, r.p_current_ratio, r.p_working_capital)

\* The current period holds the sample values of the page.
SampleEntered ==
    input_data.curr = (IF page = "fa3" THEN RawDefault3 ELSE RawSampleCurr4)

RepaymentCashFlow(d) == d.ord_profit + d.depreciation - d.tax

\* The repayment years of a record: the loans over the cash flow when that is
\* positive, otherwise exactly 0.
RepaymentYears(d) ==
    IF RepaymentCashFlow(d) > 0
    THEN Norm(d.short_loan + d.long_loan, RepaymentCashFlow(d))
    ELSE Zero

\* C16: debt-repayment years, for each period: when ord_profit + depreciation
\* - tax > 0 the value is (short_loan + long_loan) over it; otherwise the value
\* is exactly 0, a defined number displayed as 0.0 years and not as "-".
C16_RepaymentYears ==
    report.shown =>
        /\ report.kpis[12].name = "redemption" /\ report.kpis[12].unit = UNIT_NEN
        /\ report.kpis[12].curr_v = RepaymentYears(report.c)
        /\ report.kpis[12].prev_v = RepaymentYears(report.p)
        /\ RepaymentCashFlow(report.c) <= 0 =>
              report.kpis[12].curr_disp = <<"0", ".", "0", CH_NEN>>
        /\ RepaymentCashFlow(report.p) <= 0 =>
              report.kpis[12].prev_disp = <<"0", ".", "0", CH_NEN>>
        /\ report.kpis[12].curr_disp = UnitRule(UNIT_NEN, RepaymentYears(report.c))
        /\ report.kpis[12].prev_disp = UnitRule(UNIT_NEN, RepaymentYears(report.p))

\* A report whose current cash flow is exactly zero and whose prior cash flow
\* is positive: 0.0 years against a positive number of years.
C16_Witness ==
    /\ report.shown
    /\ RepaymentCashFlow(report.c) = 0 /\ RepaymentCashFlow(report.p) > 0
    /\ report.kpis[12].curr_disp = <<"0", ".", "0", CH_NEN>>
    /\ NumGt(report.kpis[12].prev_v, Zero)

\* The 13 KPI columns at the end of a row logged by financial_analysis4.py.
LoggedKpis(row) == [i \in 1 .. 13 |-> row[65 + i]]

\* C17: evaluation is a deterministic function of the input pair alone.  The
\* report on the page is the report of the inputs, whatever the session went
\* through; the single pass of financial_analysis3.py and the submit-time and
\* display-time passes of financial_analysis4.py give the same ratios, the same
\* 13 KPIs, the same category scores and the same overall score for the pair;
\* and a row logged at submit time carries the overall score and the KPI values
\* of the report displayed for that pair.
C17_EvaluationDeterministic ==
    report.shown =>
        LET c == report.c
            p == report.p
            r == report.ratios
        IN  /\ report = (IF page = "fa3" THEN ReportOfInputs3 ELSE ReportOfInputs4)
            /\ ratios3(c, p) = r /\ ratios_submit4(c, p) = r /\ ratios_display4(c, p) = r
            /\ kpi_definitions3(r) = kpi_definitions4(r)
            /\ Len(kpi_definitions3(r)) = 13
            /\ scores3(r, c, p) = report.scores
            /\ scores_submit4(r, c, p) = report.scores
            /\ scores_display4(r, c, p) = report.scores
            /\ avg_score3(report.scores) = report.avg_score
            /\ avg_score_submit4(report.scores) = report.avg_score
            /\ avg_score_display4(report.scores) = report.avg_score
            /\ page = "fa4" =>
                  \A i \in 1 .. Len(sheet) :
                      /\ sheet[i][5] = report.avg_score
                      /\ LoggedKpis(sheet[i]) = [k \in 1 .. 13 |-> report.kpis[k].curr_v]

\* A diagnosed turnaround whose row was logged: the submit-time score in the
\* row is the display-time score of the report.
C17_Witness ==
    /\ page = "fa4" /\ report.shown /\ Len(sheet) = 1
    /\ report.p.op_profit <= 0 /\ report.c.op_profit > 0
    /\ sheet[1][5] = report.avg_score
    /\ LoggedKpis(sheet[1])[4] = None

\* The item column of the export rows, in order.
ItemsOf(ex) == [i \in 1 .. Len(ex) |-> ex[i][2]]

KpiNames ==
    << "op_margin", "fcf", "sales_growth", "op_growth", "fixed_turn", "inv_days",
       "sales_per_emp", "op_per_emp", "equity_ratio", "working_capital",
       "current_ratio", "redemption", "loan_sales_ratio" >>

\* The last 13 rows of the export are the 13 KPIs of the report, in order,
\* each with its category, name, current value, unit and prior value.
KpiRowsLast(rep) ==
    LET ex == rep.export
        n == Len(ex)
    IN  /\ n >= 13 /\ Len(rep.kpis) = 13
        /\ \A k \in 1 .. 13 :
              /\ ex[n - 13 + k][1] = rep.kpis[k].cat
              /\ ex[n - 13 + k][2] = KpiNames[k] /\ rep.kpis[k].name = KpiNames[k]
              /\ ex[n - 13 + k][3] = rep.kpis[k].curr_v
              /\ ex[n - 13 + k][4] = rep.kpis[k].unit
              /\ ex[n - 13 + k][5] = rep.kpis[k].prev_v

\* C18 as stated: the export is a flat ordered list of six-column rows that
\* contains one row for every raw line item of the record (sales, cogs,
\* depreciation, SG&A, non-operating and extraordinary income and expense, tax,
\* cash, receivables, inventory, other current assets, fixed assets, payables,
\* short-term loan, other current liabilities, long-term loan, net assets,
\* employees) and one row for each of the 13 KPIs.
C18_ExportCoversEveryLineItem ==
    report.shown =>
        /\ \A i \in 1 .. Len(report.export) : Len(report.export[i]) = 6
        /\ \A f \in DOMAIN input_data.curr :
              \E i \in 1 .. Len(report.export) : report.export[i][2] = f
        /\ KpiRowsLast(report)

\* The items of the export of financial_analysis3.py.
ExportItems3 ==
    << "sales", "cogs", "sga", "op_profit", "ord_profit", "current_assets",
       "fixed_assets", "current_liab", "fixed_liab", "net_assets", "total_loans" >>
    \o KpiNames

\* The items of the export of financial_analysis4.py.
ExportItems4 ==
    << "timestamp", "company_name", "prefecture", "industry", "total_score",
       "sales", "cogs", "depreciation", "gross_profit", "sga", "op_profit",
       "non_op_inc", "non_op_exp", "ord_profit", "extra_inc", "extra_exp",
       "pre_tax_profit", "tax", "net_profit", "current_assets", "fixed_assets",
       "total_assets", "current_liab", "fixed_liab", "net_assets", "employees" >>
    \o KpiNames

\* The raw line items that have no export row of their own in either page.
NotExported ==
    {"cash", "receivables", "inventory", "other_ca", "payables", "short_loan",
     "other_cl", "long_loan"}

\* C18 amended: the export is a flat ordered list of six-column rows in the
\* same order on every evaluation, ending with one row for each of the 13
\* KPIs.  Before them financial_analysis3.py has 11 rows (sales, cogs, SG&A,
\* operating profit, ordinary profit, current assets, fixed assets, current
\* liabilities, fixed liabilities, net assets, total loans) and
\* financial_analysis4.py has 5 metadata rows and 21 rows of line items and
\* subtotals; every such row holds the current and prior value of its field.
\* Cash, receivables, inventory, other current assets, payables, short-term
\* loan, other current liabilities and long-term loan have no row of their own.
C18_ExportRows ==
    report.shown =>
        LET ex == report.export
            first == IF page = "fa3" THEN 1 ELSE 6
        IN  /\ \A i \in 1 .. Len(ex) : Len(ex[i]) = 6
            /\ ItemsOf(ex) = (IF page = "fa3" THEN ExportItems3 ELSE ExportItems4)
            /\ KpiRowsLast(report)
            /\ \A i \in first .. Len(ex) - 13 :
                  IF ex[i][2] = "total_loans"
                  THEN /\ ex[i][3] = I(report.c.short_loan + report.c.long_loan)
                       /\ ex[i][5] = I(report.p.short_loan + report.p.long_loan)
                  ELSE /\ ex[i][3] = I(report.c[ex[i][2]])
                       /\ ex[i][5] = I(report.p[ex[i][2]])
            /\ page = "fa4" =>
                  /\ ex[2][3] = company_name /\ ex[3][3] = prefecture
                  /\ ex[4][3] = industry /\ ex[5][3] = report.avg_score
            /\ \A i \in 1 .. Len(ex) : ex[i][2] \notin NotExported

\* The export of a diagnosed session: 39 rows, the inventory entered but not
\* among them.
C18_Witness ==
    /\ page = "fa4" /\ report.shown
    /\ Len(report.export) = 39
    /\ input_data.curr.inventory > 0
    /\ report.export[6][3] = I(input_data.curr.sales)
    /\ report.export[39][3] = report.ratios.c_loan_sales_ratio

\* The columns of a logged row that hold numbers.
NumericColumns(row) == (IF page = "fa3" THEN 4 ELSE 5) .. Len(row)

\* C19 as stated: every row handed to the logging collaborator is one flat
\* list holding the metadata, every raw field of both the current and the
\* prior period, and every derived KPI.
C19_RowHoldsEverything ==
    \A i \in 1 .. Len(sheet) :
        LET row == sheet[i]
            kpis == kpi_definitions3(ratios3(create_inputs3(input_data.curr),
                                             create_inputs3(input_data.prev)))
        IN  /\ row[2] = company_name
            /\ \A f \in DOMAIN input_data.curr :
                  /\ \E j \in NumericColumns(row) : row[j] = I(input_data.curr[f])
                  /\ \E j \in NumericColumns(row) : row[j] = I(input_data.prev[f])
            /\ \A k \in 1 .. 13 : \E j \in NumericColumns(row) : row[j] = kpis[k].curr_v

\* The fixed order of the thirty columns of one period in a row of
\* financial_analysis4.py.
PeriodFields ==
    << "sales", "cogs", "depreciation", "gross_profit", "sga", "op_profit",
       "non_op_inc", "non_op_exp", "ord_profit", "extra_inc", "extra_exp",
       "pre_tax_profit", "tax", "net_profit",
       "cash", "receivables", "inventory", "other_ca", "current_assets",
       "fixed_assets", "total_assets",
       "payables", "short_loan", "other_cl", "current_liab", "long_loan",
       "fixed_liab", "net_assets", "total_liab_equity", "employees" >>

\* A row of financial_analysis4.py for the inputs of the state: 78 scalars.
FullRow(row) ==
    LET c == create_inputs4(input_data.curr)
        p == create_inputs4(input_data.prev)
        r == ratios_display4(c, p)
        kpis == kpi_definitions4(r)
    IN  /\ Len(row) = 78 /\ Len(PeriodFields) = 30
        /\ DOMAIN input_data.curr \subseteq {PeriodFields[j] : j \in 1 .. 30}
        /\ row[1] = Now /\ row[2] = company_name /\ row[3] = prefecture
        /\ row[4] = industry
        /\ row[5] = avg_score_display4(scores_display4(r, c, p))
        /\ \A j \in 1 .. 30 : /\ row[5 + j] = I(c[PeriodFields[j]])
                              /\ row[35 + j] = I(p[PeriodFields[j]])
        /\ \A k \in 1 .. 13 : row[65 + k] = kpis[k].curr_v

\* A row of financial_analysis3.py for the inputs of the state: 7 scalars.
SummaryRow(row) ==
    LET c == create_inputs3(input_data.curr)
        p == create_inputs3(input_data.prev)
        r == ratios3(c, p)
    IN  /\ Len(row) = 7
        /\ row[1] = Now /\ row[2] = company_name /\ row[3] = industry
        /\ row[4] = I(c.sales) /\ row[5] = I(c.op_profit)
        /\ row[6] = avg_score3(scores3(r, c, p))
        /\ row[7] = r.c_loan_sales_ratio

\* C19 amended: each invocation of the logging collaborator passes one flat
\* list of scalars in a fixed column order.  In financial_analysis4.py it has
\* 78 columns: timestamp, company, prefecture, industry, overall score, the
\* thirty fields and subtotals of the current period, the same thirty of the
\* prior period, and the 13 current KPI values.  In financial_analysis3.py it
\* has 7: timestamp, company, industry, current sales, current operating
\* profit, overall score, loans to monthly sales.  On success exactly one row
\* is appended per invocation; nothing is appended on failure or without an
\* invocation.
C19_LoggedRows ==
    /\ [][ /\ last_save' = "appended" =>
                /\ Len(sheet') = Len(sheet) + 1
                /\ \A i \in 1 .. Len(sheet) : sheet'[i] = sheet[i]
           /\ last_save' # "appended" => sheet' = sheet ]_vars
    /\ [](\A i \in 1 .. Len(sheet) :
             IF page = "fa3" THEN SummaryRow(sheet[i]) ELSE FullRow(sheet[i]))

\* A diagnose whose save succeeded: one row of 78 columns.
C19_Witness ==
    /\ page = "fa4" /\ last_save = "appended"
    /\ Len(sheet) = 1 /\ Len(sheet[1]) = 78
    /\ sheet[1][3] = prefecture

\* The widgets of the form.
formVars == <<company_name, industry, prefecture, input_data>>

\* C20: in financial_analysis4.py the has_diagnosed flag is the only gate of
\* the report.  It starts false; it becomes true only by a diagnose click that
\* passes every validation check, which also hands a row to logging; a click
\* that fails validation leaves the flag unchanged and sends nothing to
\* logging; the sample button and input edits never change it; the re-diagnose
\* button, which is on the page only with the report, sets it back to false;
\* and the report section is rendered in a run exactly when the flag is true.
C20_FlagGatesReport ==
    /\ (page = "fa4" => ~has_diagnosed)
    /\ [](page = "fa4" => (report.shown <=> has_diagnosed))
    /\ [][ page = "fa4" =>
             /\ (~has_diagnosed /\ has_diagnosed') =>
                   /\ company_name # "" /\ industry # NoChoice /\ prefecture # NoChoice
                   /\ last_save' # "none" /\ alert' = "none"
                   /\ UNCHANGED formVars
             /\ alert' \in ValidationErrors =>
                   /\ company_name = "" \/ industry = NoChoice \/ prefecture = NoChoice
                   /\ last_save' = "none"
                   /\ UNCHANGED <<has_diagnosed, sheet>>
             /\ formVars' # formVars => has_diagnosed' = has_diagnosed
             /\ (has_diagnosed /\ ~has_diagnosed') =>
                   /\ report.shown /\ ~report'.shown
                   /\ last_save' = "none"
                   /\ UNCHANGED <<formVars, sheet>> ]_vars

\* A session that was diagnosed, logged and then reset by the re-diagnose
\* button: the flag is false again and the report is gone.
C20_Witness ==
    /\ page = "fa4" /\ ~has_diagnosed /\ ~report.shown
    /\ Len(sheet) = 1 /\ last_save = "none"
    /\ validation_error4(company_name, industry, prefecture) = "none"

\* The row financial_analysis4.py computes at submit time from the widget
\* values of a state.
RowOfInputs4 ==
    save_row4(company_name, industry, prefecture,
              create_inputs4(input_data.curr), create_inputs4(input_data.prev))

\* C21: in financial_analysis4.py, whenever the report and its CSV download are
\* on the page, the data shown has already been saved: a row computed from
\* exactly the displayed input pair and metadata has been appended to the
\* sheet.
C21_ShownDataIsSaved ==
    (page = "fa4" /\ report.shown) =>
        \E i \in 1 .. Len(sheet) : sheet[i] = RowOfInputs4

-----------------------------------------------------------------------------
(* Properties of the free-cash-flow line, under SpecFcf *)

FcfApplied == fn = "c_fcf" /\ result # <<>>

\* op_profit * 0.6 - (fixed_assets_curr - fixed_assets_prev), evaluated in
\* binary64.
fcf_without_depreciation(c, p) ==
    float_sub(int_times_0_6(c.op_profit), float_of_int(c.fixed_assets - p.fixed_assets))

\* The outputs for the same pair with another current depreciation.
OutputsWithDepreciation(d) ==
    free_cash_flow_outputs([args.c EXCEPT !.depreciation = d], args.p)

\* The magnitude is below 2^(-k).
BelowPowerOfTwo(mag, k) == nat_bit_length(mag) <= FracBits - k

\* Five times the float minus the integer 3 * op_profit - 5 * (investment):
\* five times the distance of the float from the exact 3/5 * op_profit - investment.
FiveTimesError(v, c, p) ==
    exact_add(<<v[1], nat_mul(v[2], nat_of(5))>>,
              float_neg(float_of_int(3 * c.op_profit
                                       - 5 * (c.fixed_assets - p.fixed_assets))))

-----------------------------------------------------------------------------
(* Degenerate denominators, under SpecEval *)

\* The score a ratio of 0 earns under each higher-is-better threshold tuple.
ScoreOfZero(t) == ScoreOf(Zero, t, FALSE)

\* C23: a zero denominator makes the ratio 0.  On the lower-is-better ratios
\* that is the best score: with current sales == 0 the loan-to-monthly-sales
\* ratio is 0 and its safety sub-score is 5 whatever short_loan + long_loan
\* is, and with current cogs == 0 inventory days is 0 and its efficiency
\* sub-score is 5 whatever the inventory is.  On the higher-is-better ratios
\* the value is 0 and the sub-score is the one 0 earns under the ratio's
\* thresholds: 2 for the operating margin (sales == 0) and the operating profit
\* per employee (employees == 0), 1 for the fixed-asset turnover
\* (fixed_assets == 0), the sales per employee (employees == 0) and the equity
\* ratio (total_assets == 0).  Each sub-score is read off the composite it
\* enters with the other ratio of its category.
C23_DegenerateDenominators ==
    report.shown =>
        LET c == report.c
            r == report.ratios
            s == report.scores
        IN  /\ c.sales = 0 =>
                  /\ r.c_loan_sales_ratio = Zero
                  /\ ScoreOf(r.c_loan_sales_ratio, <<12, 6, 3, 1>>, TRUE) = 5
                  /\ s.safety = MeanOf(ScoreOf(r.c_equity_ratio, <<10, 20, 40, 60>>, FALSE), 5)
                  /\ r.c_op_margin = Zero
                  /\ ScoreOfZero(<<0, 2, 5, 10>>) = 2
                  /\ s.profitability
                        = MeanOf(2, ScoreOf(r.c_fcf, <<-1000, 0, 1000, 5000>>, FALSE))
            /\ c.cogs = 0 =>
                  /\ r.c_inv_days = Zero
                  /\ ScoreOf(r.c_inv_days, <<180, 90, 60, 30>>, TRUE) = 5
                  /\ s.efficiency = MeanOf(ScoreOf(r.c_fixed_turn, <<1, 3, 5, 10>>, FALSE), 5)
            /\ c.fixed_assets = 0 =>
                  /\ r.c_fixed_turn = Zero
                  /\ ScoreOfZero(<<1, 3, 5, 10>>) = 1
                  /\ s.efficiency
                        = MeanOf(1, ScoreOf(r.c_inv_days, <<180, 90, 60, 30>>, TRUE))
            /\ c.employees = 0 =>
                  /\ r.c_sales_per_emp = Zero /\ r.c_op_per_emp = Zero
                  /\ ScoreOfZero(<<10000, 15000, 20000, 30000>>) = 1
                  /\ ScoreOfZero(<<0, 500, 1000, 2000>>) = 2
                  /\ s.productivity = MeanOf(1, 2)
            /\ c.total_assets = 0 =>
                  /\ r.c_equity_ratio = Zero
                  /\ ScoreOfZero(<<10, 20, 40, 60>>) = 1
                  /\ s.safety
                        = MeanOf(1, ScoreOf(r.c_loan_sales_ratio, <<12, 6, 3, 1>>, TRUE))

\* A report for no current sales with loans of 30000 and no cost of goods with
\* an inventory of 40000: both ratios are 0, and the operating margin is 0.
C23_Witness ==
    /\ report.shown
    /\ report.c.sales = 0 /\ report.c.short_loan + report.c.long_loan = 30000
    /\ report.c.cogs = 0 /\ report.c.inventory = 40000
    /\ report.ratios.c_loan_sales_ratio = Zero /\ report.ratios.c_inv_days = Zero
    /\ report.ratios.c_op_margin = Zero

\* A report of financial_analysis4.py for a blank form: total assets and fixed
\* assets are 0, both safety sub-scores come from a zero denominator.
BlankFormDiagnosed ==
    /\ page = "fa4" /\ report.shown
    /\ report.c.total_assets = 0 /\ report.c.fixed_assets = 0
    /\ report.ratios.c_equity_ratio = Zero
    /\ report.scores.safety = I(3)

\* A report for no employees and no fixed assets.
NoEmployeesNoFixedAssets ==
    /\ report.shown
    /\ report.c.employees = 0 /\ report.c.fixed_assets = 0
    /\ report.scores.productivity = Norm(3, 2)

====
